---- MODULE Spec2Model ----
(***************************************************************************)
(* skills-man: a model of the reference resolver, the install / sync       *)
(* orchestrators and the fetch/extract engine.                             *)
(*                                                                         *)
(* Strings are TLA+ strings; paths and URLs are built and taken apart with *)
(* the same string operations the Rust code uses (join, split, prefix      *)
(* match), so that a (ref, path) pair is the text the program would send.  *)
(***************************************************************************)
EXTENDS Integers, Sequences, FiniteSets, TLC

VARIABLES
    pc,         \* position of the running CLI invocation ("idle" between calls)
    urlSpec,    \* GitHubUrlSpec under resolution: [slug, tail]
    answers,    \* remote answer to the query of each candidate (by position)
    queried,    \* positions of the candidates queried so far, in order
    outcome,    \* value returned by the resolution loop / candidates()
    manifest,   \* skills.toml on disk: name -> SkillEntry (DOMAIN = recorded names)
    disk,       \* directories under <base>/skills: name -> tree (set of <<relpath, data>>)
    upstream,   \* remote repository: skill name -> current version of its subtree
    cur,        \* locals of the running invocation (config in memory, temp dir, ...)
    hist        \* observations of the running invocation (downloads, prompts, ...)

vars == <<pc, urlSpec, answers, queried, outcome, manifest, disk, upstream, cur, hist>>
resVars == <<urlSpec, answers, queried, outcome>>
fsVars == <<manifest, disk, upstream, cur, hist>>

----------------------------------------------------------------------------
(* String helpers: what str::join, str::split, starts_with, find compute.  *)

RECURSIVE Join(_)
Join(segs) ==
    IF Len(segs) = 0 THEN ""
    ELSE IF Len(segs) = 1 THEN segs[1]
    ELSE segs[1] \o "/" \o Join(Tail(segs))

StartsWith(s, p) == Len(p) <= Len(s) /\ SubSeq(s, 1, Len(p)) = p

StripPrefix(s, p) == SubSeq(s, Len(p) + 1, Len(s))

\* position of the first '/' in s, 0 when there is none
RECURSIVE FindSlashFrom(_, _)
FindSlashFrom(s, i) ==
    IF i > Len(s) THEN 0
    ELSE IF SubSeq(s, i, i) = "/" THEN i
    ELSE FindSlashFrom(s, i + 1)

FindSlash(s) == FindSlashFrom(s, 1)

\* s.split('/') : the pieces between slashes, empty pieces included
RECURSIVE SplitSlash(_)
SplitSlash(s) ==
    LET p == FindSlash(s) IN
    IF p = 0 THEN <<s>>
    ELSE <<SubSeq(s, 1, p - 1)>> \o SplitSlash(SubSeq(s, p + 1, Len(s)))

----------------------------------------------------------------------------
(* models.rs: GitHubUrlSpec                                                *)

GitHubUrl(slug, ref, path) == [slug |-> slug, ref |-> ref, path |-> path]

candidates_all_splits(spec) ==
    [split \in 1..Len(spec.tail) |->
        GitHubUrl(spec.slug,
                  Join(SubSeq(spec.tail, 1, split)),
                  Join(SubSeq(spec.tail, split + 1, Len(spec.tail))))]

candidates(spec) ==
    [split \in 1..(Len(spec.tail) - 1) |->
        GitHubUrl(spec.slug,
                  Join(SubSeq(spec.tail, 1, split)),
                  Join(SubSeq(spec.tail, split + 1, Len(spec.tail))))]

directory_name(spec) == spec.tail[Len(spec.tail)]

----------------------------------------------------------------------------
(* Remote answers.  A query of the hosting service ends in an HTTP status  *)
(* or in a transport failure; "200-nosha" is a 200 whose body carries no   *)
(* commit (an empty history list).                                         *)

Answers == {"200", "200-nosha", "404", "422", "403", "429", "500", "transport"}

Ok(idx) == [ok |-> TRUE, idx |-> idx, err |-> ""]
Err(e) == [ok |-> FALSE, idx |-> 0, err |-> e]

\* github.rs resolve_commit_sha: Ok(Some(sha)) is Ok(1), Ok(None) is Ok(0)
resolve_commit_sha(answer) ==
    CASE answer = "200" -> Ok(1)
      [] answer = "200-nosha" -> Err("NetworkError")
      [] answer \in {"404", "422"} -> Ok(0)
      [] answer = "403" -> Err("Forbidden")
      [] answer = "429" -> Err("RateLimited")
      [] answer = "transport" -> Err("NetworkError")
      [] OTHER -> Err("HttpError")

\* the contents query used by install_skill: Ok(contents) is Ok(1)
fetch_contents_sha(answer) ==
    CASE answer = "200" -> Ok(1)
      [] answer = "200-nosha" -> Err("NetworkError")
      [] answer = "404" -> Err("NotFound")
      [] answer = "403" -> Err("Forbidden")
      [] answer = "429" -> Err("RateLimited")
      [] answer = "transport" -> Err("NetworkError")
      [] OTHER -> Err("HttpError")

Trace(q, res) == [queried |-> q, res |-> res]

(* github.rs resolve: `resolve_commit_sha(agent, &candidate)?` per candidate *)
RECURSIVE resolve_first_only(_, _, _, _)
resolve_first_only(cands, ans, i, q) ==
    IF i > Len(cands) \/ i > 1 THEN Trace(q, Ok(0))
    ELSE LET r == resolve_commit_sha(ans[i]) IN
         IF ~r.ok THEN Trace(Append(q, i), r)
         ELSE IF r.idx = 1 THEN Trace(Append(q, i), Ok(i))
         ELSE resolve_first_only(cands, ans, i + 1, Append(q, i))

RECURSIVE resolve_longest_first(_, _, _, _)
resolve_longest_first(cands, ans, i, q) ==
    IF i > Len(cands) THEN Trace(q, Ok(0))
    ELSE LET k == Len(cands) + 1 - i
             r == resolve_commit_sha(ans[k])
         IN IF ~r.ok THEN Trace(Append(q, k), r)
            ELSE IF r.idx = 1 THEN Trace(Append(q, k), Ok(k))
            ELSE resolve_longest_first(cands, ans, i + 1, Append(q, k))

RECURSIVE resolve(_, _, _, _)
resolve(cands, ans, i, q) ==
    IF i > Len(cands) THEN Trace(q, Ok(0))
    ELSE LET r == resolve_commit_sha(ans[i]) IN
         IF ~r.ok THEN Trace(Append(q, i), r)
         ELSE IF r.idx = 1 THEN Trace(Append(q, i), Ok(i))
         ELSE resolve(cands, ans, i + 1, Append(q, i))

(* install.rs install_skill, the candidate loop and the ok_or_else after it *)
RECURSIVE install_resolve(_, _, _, _)
install_resolve(cands, ans, i, q) ==
    IF i > Len(cands) THEN Trace(q, Err("PathNotFound"))
    ELSE LET r == fetch_contents_sha(ans[i]) IN
         IF r.ok THEN Trace(Append(q, i), Ok(i))
         ELSE IF r.err = "NotFound" THEN install_resolve(cands, ans, i + 1, Append(q, i))
         ELSE Trace(Append(q, i), r)

(* cli.rs install_skill::match_upstream_sha: `if let Ok(Some(sha)) = ...`    *)
(* returns at the first candidate that resolves; every other result, an     *)
(* error included, falls through to the next candidate.  Ok(i) is Some(_)   *)
(* found at candidate i, Ok(0) is None.                                     *)
RECURSIVE match_upstream_sha(_, _, _, _)
match_upstream_sha(cands, ans, i, q) ==
    IF i > Len(cands) THEN Trace(q, Ok(0))
    ELSE LET r == resolve_commit_sha(ans[i]) IN
         IF r.ok /\ r.idx = 1 THEN Trace(Append(q, i), Ok(i))
         ELSE match_upstream_sha(cands, ans, i + 1, Append(q, i))

----------------------------------------------------------------------------
(* Bounds and input sets                                                   *)

MaxTail == 4

SegSet == {"release", "v1.0", "skill"}

Tails == UNION {[1..n -> SegSet] : n \in 2..MaxTail}

ResSegs == <<"release", "v1.0", "hotfix", "skill", "extra", "more">>

Cur0 ==
    [op |-> "none", url |-> "", yes |-> FALSE, name |-> "",
     resolved |-> GitHubUrl("", "", ""), sha |-> "", entries |-> <<>>,
     config |-> <<>>, temp |-> "",
     todo |-> <<>>, successful |-> 0, failed |-> <<>>]

NoSnap == [manifest |-> <<>>, disk |-> <<>>]
NoPrev == [op |-> "none", url |-> "", result |-> "none", quiet |-> TRUE, fresh |-> FALSE]

Hist0 ==
    [op |-> "none", url |-> "", result |-> "none", steps |-> 0, quiet |-> TRUE,
     downloads |-> 0, prompts |-> 0, pre |-> NoSnap, prev |-> NoPrev,
     stage |-> <<>>, selected |-> {}, attempted |-> {}, broken |-> {},
     asked |-> {}, declined |-> {}, fetched |-> {}, successful |-> 0, failed |-> <<>>,
     extracted |-> FALSE, moved |-> FALSE, faults |-> 0, faults0 |-> 0,
     absent |-> {}, queries |-> 0, replaced |-> {},
     consent |-> FALSE, detail |-> "", saves |-> 0, update |-> "",
     fserr |-> FALSE, loads |-> 0, toml |-> "none", uncleaned |-> FALSE,
     seen |-> <<>>]

FsIdle ==
    /\ manifest = <<>>
    /\ disk = <<>>
    /\ upstream = <<>>
    /\ cur = Cur0
    /\ hist = Hist0

----------------------------------------------------------------------------
(* SpecCand: candidates() applied to every tail of 2..MaxTail segments      *)

InitCand ==
    /\ pc = "start"
    /\ urlSpec \in {[slug |-> "owner/repo", tail |-> t] : t \in Tails}
    /\ answers = <<>>
    /\ queried = <<>>
    /\ outcome = <<>>
    /\ FsIdle

Candidates ==
    /\ pc = "start"
    /\ outcome' = candidates(urlSpec)
    /\ pc' = "done"
    /\ UNCHANGED <<urlSpec, answers, queried>>
    /\ UNCHANGED fsVars

NextCand == Candidates

SpecCand == InitCand /\ [][NextCand]_vars

----------------------------------------------------------------------------
(* SpecRes: the candidate loops against every combination of answers        *)

InitRes ==
    /\ pc = "start"
    /\ \E n \in 2..MaxTail :
          /\ urlSpec = [slug |-> "owner/repo", tail |-> SubSeq(ResSegs, 1, n)]
          /\ answers \in [1..(n - 1) -> Answers]
    /\ queried = <<>>
    /\ outcome = Ok(0)
    /\ FsIdle

RunLoop(name, t) ==
    /\ pc = "start"
    /\ pc' = name
    /\ queried' = t.queried
    /\ outcome' = t.res
    /\ UNCHANGED <<urlSpec, answers>>
    /\ UNCHANGED fsVars

RunResolve == RunLoop("resolve", resolve(candidates(urlSpec), answers, 1, <<>>))

RunInstallResolve ==
    RunLoop("install_skill", install_resolve(candidates(urlSpec), answers, 1, <<>>))

RunMatchUpstreamSha ==
    RunLoop("match_upstream_sha", match_upstream_sha(candidates(urlSpec), answers, 1, <<>>))

NextRes == RunResolve \/ RunInstallResolve \/ RunMatchUpstreamSha

SpecRes == InitRes /\ [][NextRes]_vars

----------------------------------------------------------------------------
(* The local filesystem and the checksum engine                            *)
(*                                                                         *)
(* A tree is the content of one directory under <base>/skills: a set of    *)
(* entries <<relative path, kind, data>> with kind "file", "dir", or       *)
(* "noread" (a file whose bytes cannot be read), or "nolist" (a directory   *)
(* whose entries cannot be read).                                          *)

Put(f, k, v) == [x \in (DOMAIN f) \cup {k} |-> IF x = k THEN v ELSE f[x]]
Drop(f, k) == [x \in (DOMAIN f) \ {k} |-> f[x]]

\* byte order of the characters that occur in names
CharOrder == "-./0123456789:@ABCDEFGHIJKLMNOPQRSTUVWXYZ_abcdefghijklmnopqrstuvwxyz"

CharCodes ==
    [c \in {SubSeq(CharOrder, i, i) : i \in 1..Len(CharOrder)} |->
        CHOOSE i \in 1..Len(CharOrder) : SubSeq(CharOrder, i, i) = c]

CharCode(c) == IF c \in DOMAIN CharCodes THEN CharCodes[c] ELSE 0

RECURSIVE StrLess(_, _)
StrLess(a, b) ==
    IF Len(b) = 0 THEN FALSE
    ELSE IF Len(a) = 0 THEN TRUE
    ELSE LET x == CharCode(Head(a))
             y == CharCode(Head(b))
         IN IF x # y THEN x < y ELSE StrLess(Tail(a), Tail(b))

\* Ord for Path: component by component
RECURSIVE SeqLess(_, _)
SeqLess(a, b) ==
    IF Len(b) = 0 THEN FALSE
    ELSE IF Len(a) = 0 THEN TRUE
    ELSE IF Head(a) # Head(b) THEN StrLess(Head(a), Head(b))
    ELSE SeqLess(Tail(a), Tail(b))

PathLess(a, b) == SeqLess(SplitSlash(a), SplitSlash(b))

\* paths.sort()
RECURSIVE SortPaths(_)
SortPaths(S) ==
    IF S = {} THEN <<>>
    ELSE LET m == CHOOSE x \in S : \A y \in S \ {x} : PathLess(x, y)
         IN <<m>> \o SortPaths(S \ {m})

\* BTreeMap key order
RECURSIVE SortNames(_)
SortNames(S) ==
    IF S = {} THEN <<>>
    ELSE LET m == CHOOSE x \in S : \A y \in S \ {x} : StrLess(x, y)
         IN <<m>> \o SortNames(S \ {m})

IsFile(e) == e[2] \in {"file", "noread"}

EntryAt(tree, path) == CHOOSE e \in tree : e[1] = path

\* the bytes fed to the hasher: for each file in sorted order its relative
\* path, then its content.  The digest is modelled by the bytes themselves.
RECURSIVE HashFold(_, _)
HashFold(tree, paths) ==
    IF Len(paths) = 0 THEN ""
    ELSE Head(paths) \o EntryAt(tree, Head(paths))[3] \o HashFold(tree, Tail(paths))

\* what WalkDir yields as Ok: an entry below a directory that cannot be
\* listed is an Err item, which `filter_map(|e| e.ok())` drops
Walked(tree) ==
    {e \in tree : \A d \in tree : d[2] = "nolist" => ~StartsWith(e[1], d[1] \o "/")}

\* Result<String, io::Error>
calculate_checksum(tree) ==
    LET files == {e \in Walked(tree) : IsFile(e)} IN
    IF \E e \in files : e[2] = "noread" THEN [ok |-> FALSE, val |-> "IoError"]
    ELSE [ok |-> TRUE,
          val |-> "sha256:" \o HashFold(tree, SortPaths({e[1] : e \in files}))]

----------------------------------------------------------------------------
(* models.rs GitHubUrlSpec::parse                                          *)

RECURSIVE TrimEndSlash(_)
TrimEndSlash(s) ==
    IF Len(s) > 0 /\ SubSeq(s, Len(s), Len(s)) = "/"
    THEN TrimEndSlash(SubSeq(s, 1, Len(s) - 1))
    ELSE s

NonEmpty(segs) == SelectSeq(segs, LAMBDA part : part # "")

UrlHost == "https://github.com/"

parse_accepting_one_segment(url0) ==
    LET url == TrimEndSlash(url0)
        segs == SplitSlash(StripPrefix(url, UrlHost))
        bad == [ok |-> FALSE, slug |-> "", tail |-> <<>>]
    IN IF ~StartsWith(url, UrlHost) THEN bad
       ELSE IF Len(segs) < 4 THEN bad
       ELSE IF segs[1] = "" \/ segs[2] = "" \/ segs[3] # "tree" THEN bad
       ELSE LET tail == NonEmpty(SubSeq(segs, 4, Len(segs))) IN
            IF Len(tail) < 1 THEN bad
            ELSE [ok |-> TRUE, slug |-> segs[1] \o "/" \o segs[2], tail |-> tail]

\* ^https://github\.com/([^/]+/[^/]+)/tree/(.+?)/?$ on the trimmed URL, then
\* the tail split on '/' with empty parts dropped; fewer than 2 is InvalidUrl
parse(url0) ==
    LET url == TrimEndSlash(url0)
        segs == SplitSlash(StripPrefix(url, UrlHost))
        bad == [ok |-> FALSE, slug |-> "", tail |-> <<>>]
    IN IF ~StartsWith(url, UrlHost) THEN bad
       ELSE IF Len(segs) < 4 THEN bad
       ELSE IF segs[1] = "" \/ segs[2] = "" \/ segs[3] # "tree" THEN bad
       ELSE LET tail == NonEmpty(SubSeq(segs, 4, Len(segs))) IN
            IF Len(tail) < 2 THEN bad
            ELSE [ok |-> TRUE, slug |-> segs[1] \o "/" \o segs[2], tail |-> tail]

----------------------------------------------------------------------------
(* The remote repository o/r, branch main:                                 *)
(*     README.md                                                           *)
(*     skills/<name>/SKILL.md, skills/<name>/a.txt    for each name        *)
(*     misc/docs/README.md                                                 *)
(* upstream[name] is the version of the subtree skills/<name>.             *)

Names == {"bar", "foo"}

MaxVersion == 2

Slug == "o/r"
Branch == "main"
Container == "skills"
UrlAll == UrlHost \o Slug \o "/tree/" \o Branch \o "/" \o Container
UrlOf(n) == UrlAll \o "/" \o n

\* a directory whose only sub-directory holds no SKILL.md
Misc == "misc"
Docs == "docs"
UrlMisc == UrlHost \o Slug \o "/tree/" \o Branch \o "/" \o Misc

TreeSha(n, v) == n \o "@" \o ToString(v)

\* the identifiers of every version of every subtree, and every combination
\* of versions the repository can be at
TreeShas == [n \in Names |-> [v \in 1..MaxVersion |-> TreeSha(n, v)]]

Versions == [Names -> 1..MaxVersion]
CommitSha(v) == "commit-" \o ToString(v)

\* the versions of the subtrees as seen through a ref: the branch shows the
\* current ones, a recorded sha the one it names
VersionsAt(ref) ==
    IF \E n \in Names, v \in 1..MaxVersion : ref = TreeShas[n][v]
    THEN LET n == CHOOSE n \in Names : \E v \in 1..MaxVersion : ref = TreeShas[n][v]
             v == CHOOSE v \in 1..MaxVersion : ref = TreeShas[n][v]
         IN [upstream EXCEPT ![n] = v]
    ELSE upstream

RefExists(ref) ==
    \/ ref \in {Branch, Docs \o "@1"}
    \/ \E n \in Names, v \in 1..MaxVersion : ref = TreeShas[n][v]

Item(name, type, sha) == [name |-> name, type |-> type, sha |-> sha]

\* the skill names in BTreeMap / listing order
NameSeq == SortNames(Names)

SkillPaths == {Container \o "/" \o n : n \in Names}

\* every directory of the repository below its root
RemotePaths == SkillPaths \cup {Container, Misc, Misc \o "/" \o Docs}

\* the contents API for one candidate: its HTTP status ...
RemoteStatus(c) ==
    IF c.slug = Slug /\ c.ref = Branch /\ c.path \in RemotePaths
    THEN "200" ELSE "404"

\* ... and, for a 200, the ContentsResponse of a path when the subtrees
\* are at versions vs
ContentsAt(vs, path) ==
    IF path = Container
    THEN [type |-> "dir",
          sha |-> Join([i \in DOMAIN NameSeq |-> TreeShas[NameSeq[i]][vs[NameSeq[i]]]]),
          entries |-> <<Item("README.md", "file", "readme")>> \o
                      [i \in DOMAIN NameSeq |->
                          Item(NameSeq[i], "dir", TreeShas[NameSeq[i]][vs[NameSeq[i]]])]]
    ELSE IF path = Misc
    THEN [type |-> "dir", sha |-> Misc \o "@1",
          entries |-> <<Item(Docs, "dir", Docs \o "@1")>>]
    ELSE IF path = Misc \o "/" \o Docs
    THEN [type |-> "dir", sha |-> Docs \o "@1",
          entries |-> <<Item("README.md", "file", "readme")>>]
    ELSE LET n == CHOOSE n \in Names : path = Container \o "/" \o n IN
         [type |-> "dir", sha |-> TreeShas[n][vs[n]],
          entries |-> <<Item("SKILL.md", "file", "marker"),
                        Item("a.txt", "file", TreeShas[n][vs[n]])>>]

\* the responses, computed once for every state of the repository
Contents ==
    [vs \in Versions |-> [path \in RemotePaths |-> ContentsAt(vs, path)]]

RemoteContents(c) == Contents[upstream][c.path]

\* Archive entries.  A defect is what this download's archive has wrong with
\* one skill: its marker missing, a file stored unreadable, or its whole
\* subtree missing.
ArchEntry(name, kind, data) == [name |-> name, kind |-> kind, data |-> data]

NoDefect == [kind |-> "none", name |-> ""]

Defects ==
    {NoDefect} \cup {[kind |-> k, name |-> n] : k \in {"nomarker", "noread", "missing"}, n \in Names}

Wrapper == "o-r-0a1b2c"

SkillEntries(n, v, defect) ==
    LET base == Wrapper \o "/" \o Container \o "/" \o n \o "/"
        hit == defect.name = n
    IN IF hit /\ defect.kind = "missing" THEN <<>>
       ELSE <<ArchEntry(base, "dir", "")>> \o
            (IF hit /\ defect.kind = "nomarker" THEN <<>>
             ELSE <<ArchEntry(base \o "SKILL.md", "file", "# " \o n)>>) \o
            <<ArchEntry(base \o "a.txt",
                        IF hit /\ defect.kind = "noread" THEN "noread" ELSE "file",
                        ToString(v))>>

RECURSIVE Concat(_)
Concat(seqs) == IF Len(seqs) = 0 THEN <<>> ELSE Head(seqs) \o Concat(Tail(seqs))

RepoArchiveAt(vs, defect) ==
    <<ArchEntry("pax_global_header", "file", ""),
      ArchEntry(Wrapper \o "/", "dir", ""),
      ArchEntry(Wrapper \o "/README.md", "file", "readme"),
      ArchEntry(Wrapper \o "/" \o Container \o "/", "dir", "")>> \o
    Concat([i \in DOMAIN NameSeq |->
               SkillEntries(NameSeq[i], vs[NameSeq[i]], defect)]) \o
    <<ArchEntry(Wrapper \o "/" \o Misc \o "/", "dir", ""),
      ArchEntry(Wrapper \o "/" \o Misc \o "/" \o Docs \o "/", "dir", ""),
      ArchEntry(Wrapper \o "/" \o Misc \o "/" \o Docs \o "/README.md", "file", "readme")>>

----------------------------------------------------------------------------
(* github.rs download_and_extract: which entries are materialized, and how *)

\* the Option top_level_dir once the loop has set it: the text before the
\* first '/' of the first entry that has one (at = 0 is None)
TopLevel(arch) ==
    LET withSlash == {i \in DOMAIN arch : FindSlash(arch[i].name) > 0} IN
    IF withSlash = {} THEN [at |-> 0, dir |-> ""]
    ELSE LET first == CHOOSE i \in withSlash : \A j \in withSlash : i <= j IN
         [at |-> first,
          dir |-> SubSeq(arch[first].name, 1, FindSlash(arch[first].name) - 1)]

\* Matching with the expected prefix lacking its final '/'
Matching_prefix_without_slash(arch, path) ==
    LET top == TopLevel(arch)
        pref == top.dir \o "/" \o path
        hits == SelectSeq(arch, LAMBDA e : /\ StartsWith(e.name, pref)
                                           /\ StripPrefix(e.name, pref) # "")
    IN IF top.at = 0 THEN <<>>
       ELSE [i \in DOMAIN hits |->
                <<StripPrefix(hits[i].name, pref), hits[i].kind, hits[i].data>>]

\* the entries the loop unpacks, in stream order, as <<relative, kind, data>>.
\* An entry met before top_level_dir is set has no '/' and cannot start with
\* the expected prefix, so the prefix test alone selects the entries.
Matching(arch, path) ==
    LET top == TopLevel(arch)
        pref == top.dir \o "/" \o path \o "/"
        hits == SelectSeq(arch, LAMBDA e : /\ StartsWith(e.name, pref)
                                           /\ StripPrefix(e.name, pref) # "")
    IN IF top.at = 0 THEN <<>>
       ELSE [i \in DOMAIN hits |->
                <<StripPrefix(hits[i].name, pref), hits[i].kind, hits[i].data>>]

\* the directories above a relative path
ParentsOf(rel) ==
    LET segs == SplitSlash(rel) IN
    {<<Join(SubSeq(segs, 1, k)), "dir", "">> : k \in 1..(Len(segs) - 1)}

\* create_dir_all(parent) and entry.unpack(dest_dir.join(relative)): what one
\* entry puts on disk
Made(m) ==
    LET rel == TrimEndSlash(m[1]) IN ParentsOf(rel) \cup {<<rel, m[2], m[3]>>}

\* the tree after unpacking entries in order, made[i] being what the i-th
\* puts on disk: a later entry replaces what an earlier one, or the tree, had
\* at the same path
UnpackAll(tree, made) ==
    LET kept(i) == {x \in made[i] :
                       \A j \in (i + 1)..Len(made) : \A y \in made[j] : y[1] # x[1]}
        new == UNION {kept(i) : i \in DOMAIN made}
    IN {e \in tree : \A x \in new : x[1] # e[1]} \cup new

\* the archive a ref names: the branch shows the current versions
RepoArchive(ref, defect) == RepoArchiveAt(VersionsAt(ref), defect)

\* what the loop unpacks from an archive for a path, entry by entry
Unpacked(arch, path) ==
    LET ms == Matching(arch, path) IN SubSeq([i \in DOMAIN ms |-> Made(ms[i])], 1, Len(ms))

\* the same, computed once for every archive and every path the CLI asks for
Extracted ==
    [vs \in Versions |-> [defect \in Defects |-> [path \in RemotePaths |->
        Unpacked(RepoArchiveAt(vs, defect), path)]]]

\* utils.rs ensure_skill_manifest: a top-level file named SKILL.md, any case
ensure_skill_manifest(tree) ==
    \E e \in tree : IsFile(e) /\ e[1] \in {"SKILL.md", "skill.md", "Skill.md"}

\* a sub-directory of a tree: exists(), and its content (for rename)
SubExists(tree, sub) ==
    \E e \in tree : e[1] = sub \/ StartsWith(e[1], sub \o "/")

SubTree(tree, sub) ==
    {<<StripPrefix(e[1], sub \o "/"), e[2], e[3]>> : e \in {x \in tree : StartsWith(x[1], sub \o "/")}}

WithoutSub(tree, sub) ==
    {e \in tree : e[1] # sub /\ ~StartsWith(e[1], sub \o "/")}

----------------------------------------------------------------------------
(* Spec: the CLI.  One invocation runs at a time (pc = "idle" between       *)
(* invocations); an invocation advances one filesystem or network call per *)
(* step, so every reachable state is a state a killed process can leave.   *)

MaxSteps == 3

MaxFaults == 1

\* the same skill under another spelling of its URL: parse drops the empty
\* segment, the stored source_url keeps it
UrlAlt == UrlAll \o "//foo"

\* a path the repository does not have, typed with a trailing slash
UrlGone == UrlAll \o "/baz/"

InstallUrls == {UrlOf("foo"), UrlAlt, UrlAll, UrlGone, UrlMisc}

\* what stdin is when a confirmation is asked for: a terminal and the line
\* typed, or not a terminal
Reply(tty, line) == [tty |-> tty, line |-> line]

NoReply == Reply(FALSE, "")

Replies == {Reply(TRUE, "y"), Reply(TRUE, "n"), Reply(FALSE, "y")}

TempOf(op, name) == IF op = "sync" THEN "." \o name \o ".tmp" ELSE ".download.tmp"

Upper == "ABCDEFGHIJKLMNOPQRSTUVWXYZ"
Lower == "abcdefghijklmnopqrstuvwxyz"

\* the lower-case letter of each upper-case ASCII letter
LowerOf ==
    LET at(str, i) == SubSeq(str, i, i) IN
    [c \in {at(Upper, i) : i \in 1..Len(Upper)} |->
        at(Lower, CHOOSE i \in 1..Len(Upper) : at(Upper, i) = c)]

RECURSIVE ToLower(_)
ToLower(s) ==
    IF Len(s) = 0 THEN ""
    ELSE LET c == SubSeq(s, 1, 1) IN
         (IF c \in DOMAIN LowerOf THEN LowerOf[c] ELSE c) \o ToLower(Tail(s))

\* e.name.eq_ignore_ascii_case("SKILL.md")
IsSkillMd(name) == ToLower(name) = "skill.md"

\* install.rs confirm_action / prompt.rs confirm_action_or_yes
confirm_action_always(yes, reply) == TRUE

confirm_action(yes, reply) ==
    IF yes THEN TRUE
    ELSE IF ~reply.tty THEN FALSE
    ELSE ToLower(reply.line) \in {"y", "yes"}

\* history bookkeeping of an invocation
HBegin(op, url) ==
    [Hist0 EXCEPT !.op = op, !.url = url, !.result = "running",
                  !.steps = hist.steps + 1, !.faults = hist.faults,
                  !.faults0 = hist.faults,
                  !.pre = [manifest |-> manifest, disk |-> disk],
                  !.prev = [op |-> hist.op, url |-> hist.url,
                            result |-> hist.result, quiet |-> hist.quiet,
                            fresh |-> hist.op # "none" /\ hist.pre = NoSnap]]

\* an injected failure (a refused request, a failing filesystem call, a
\* malformed archive) is drawn from a budget of MaxFaults per run
CanFail == hist.faults < MaxFaults

Faulted(h) == [h EXCEPT !.faults = @ + 1]

\* a filesystem call of this invocation returned an error, other than the
\* removal of the staging directory after something else had failed
FsError(h) == [h EXCEPT !.fserr = TRUE]

(* skills.toml as a file: it may not exist, may be unreadable, and holds a  *)
(* document of [skills.<name>] tables; a table is complete when it has all *)
(* the fields of SkillEntry, and a line may be no TOML at all              *)
TomlTable(name, entry, complete) ==
    [kind |-> "table", name |-> name, entry |-> entry, complete |-> complete]

TomlGarbage == [kind |-> "garbage", name |-> "", entry |-> <<>>, complete |-> FALSE]

\* the conditions skills.toml can be found in when the records it holds are m
TomlConds(m) ==
    {"intact"} \cup (IF m = <<>> THEN {"missing"} ELSE {"incomplete"})
        \cup {"malformed", "unreadable"}

TomlFile(m, cond) ==
    LET names == SortNames(DOMAIN m)
        tables == [i \in DOMAIN names |->
                      TomlTable(names[i], m[names[i]],
                                ~(cond = "incomplete" /\ i = Len(names)))]
    IN [exists |-> cond # "missing",
        readable |-> cond # "unreadable",
        doc |-> IF cond = "malformed" THEN Append(tables, TomlGarbage) ELSE tables]

\* toml::from_slice into SkillsConfig: an error for a line that is no TOML
\* or a table without all fields, else the tables by name
toml_from_slice(doc) ==
    IF \E i \in DOMAIN doc : doc[i].kind = "garbage" \/ ~doc[i].complete
    THEN [ok |-> FALSE, err |-> "ConfigParseError", skills |-> <<>>]
    ELSE [ok |-> TRUE, err |-> "",
          skills |-> [n \in {doc[i].name : i \in DOMAIN doc} |->
                         doc[CHOOSE i \in DOMAIN doc : doc[i].name = n].entry]]

from_file_default_on_error(file) ==
    IF ~file.exists THEN [ok |-> TRUE, err |-> "", skills |-> <<>>]
    ELSE IF ~file.readable THEN [ok |-> FALSE, err |-> "IoError", skills |-> <<>>]
    ELSE [toml_from_slice(file.doc) EXCEPT !.ok = TRUE, !.err = ""]

(* models.rs SkillsConfig::from_file, lines 15-25 *)
from_file(file) ==
    IF ~file.exists THEN [ok |-> TRUE, err |-> "", skills |-> <<>>]
    ELSE IF ~file.readable THEN [ok |-> FALSE, err |-> "IoError", skills |-> <<>>]
    ELSE toml_from_slice(file.doc)

\* the conditions an invocation may find skills.toml in: a file that cannot
\* be loaded counts as an injected failure
LoadConds == {c \in TomlConds(manifest) : c \in {"intact", "missing"} \/ CanFail}

\* a call of SkillsConfig::from_file on the file in condition cond
Loading(h, cond) == [h EXCEPT !.loads = @ + 1, !.toml = cond]

\* a call of SkillsConfig::save, whether it succeeds or fails
Saving(h) == [h EXCEPT !.saves = @ + 1]

HRet(h, res) == [h EXCEPT !.result = res, !.quiet = TRUE]

Ret(h, res) ==
    /\ pc' = "idle"
    /\ cur' = Cur0
    /\ hist' = HRet(h, res)

\* each candidate's query is answered by the repository, or refused
AnswerChoices(sp) ==
    LET cs == candidates(sp) IN
    {f \in [DOMAIN cs -> {"200", "404", "403"}] :
        \A i \in DOMAIN cs :
            f[i] \in {RemoteStatus(cs[i])} \cup (IF CanFail THEN {"403"} ELSE {})}

SkillEntry(source_url, slug, commit, sha, path, checksum) ==
    [source_url |-> source_url, slug |-> slug, commit |-> commit, sha |-> sha,
     path |-> path, checksum |-> checksum]

(* install.rs install_skill, lines 65-68: a listing with a file named      *)
(* SKILL.md, in any case, is a single skill                               *)
is_single_exact_name(entries) ==
    \E i \in DOMAIN entries : entries[i].name = "SKILL.md" /\ entries[i].type = "file"

is_single(entries) ==
    \E i \in DOMAIN entries : IsSkillMd(entries[i].name) /\ entries[i].type = "file"

(* install.rs install_batch_skills, line 215: the members of a batch *)
skill_entries(entries) == SelectSeq(entries, LAMBDA e : e.type = "dir")

(* github.rs detect_skill_type, lines 231-275, which install_skill does    *)
(* not call: children[d] is the listing of sub-directory d, listed the     *)
(* sub-directories it asks the remote about                                *)
detect_skill_type(contents, children) ==
    LET has_skill_manifest(items) ==
            \E i \in DOMAIN items : items[i].type = "file" /\ IsSkillMd(items[i].name)
        subdirs == SelectSeq(contents, LAMBDA item : item.type = "dir")
        skill_dirs == SelectSeq(subdirs, LAMBDA item : has_skill_manifest(children[item.name]))
        names(items) == [i \in DOMAIN items |-> items[i].name]
    IN IF has_skill_manifest(contents)
       THEN [kind |-> "Single", dirs |-> <<>>, listed |-> <<>>]
       ELSE [kind |-> IF skill_dirs = <<>> THEN "NoSkillsFound" ELSE "Batch",
             dirs |-> names(skill_dirs), listed |-> names(subdirs)]

(* install.rs install_skill, line 56: what the error names when no         *)
(* candidate was confirmed                                                *)
path_not_found_last_candidate(url, cands) ==
    cands[Len(cands)].ref \o ":" \o cands[Len(cands)].path

path_not_found(url, cands) == url

(* install.rs install_skill, lines 39-84: parse, resolve, detect topology *)
InstallBody(h, url0, yes) ==
    LET url == TrimEndSlash(url0)
        sp == parse(url)
    IN IF ~sp.ok
       THEN Ret(h, "Err:InvalidUrl") /\ UNCHANGED <<manifest, disk, upstream>>
       ELSE \E ans \in AnswerChoices(sp) :
            LET t == install_resolve(candidates(sp), ans, 1, <<>>)
                hq == [h EXCEPT !.queries = Len(t.queried)]
            IN
            IF ~t.res.ok
            THEN /\ \A i \in DOMAIN ans : ans[i] = "403" => i = t.queried[Len(t.queried)]
                 /\ Ret(IF t.res.err = "PathNotFound"
                        THEN [hq EXCEPT !.detail = path_not_found(url, candidates(sp))]
                        ELSE Faulted(hq),
                        "Err:" \o t.res.err)
                 /\ UNCHANGED <<manifest, disk, upstream>>
            ELSE LET c == candidates(sp)[t.res.idx]
                     contents == RemoteContents(c)
                     clean == \A i \in DOMAIN ans : ans[i] # "403"
                     single == is_single(contents.entries)
                 IN IF contents.type # "dir"
                    THEN /\ clean
                         /\ Ret(hq, "Err:InvalidResponse")
                         /\ UNCHANGED <<manifest, disk, upstream>>
                    ELSE /\ clean
                         /\ pc' = IF single THEN "single_check" ELSE "batch_check"
                         /\ cur' = [Cur0 EXCEPT !.op = IF single THEN "install" ELSE "batch",
                                                !.url = url, !.yes = yes,
                                                !.name = directory_name(sp),
                                                !.resolved = c, !.sha = contents.sha,
                                                !.entries = contents.entries]
                         /\ hist' = hq
                         /\ UNCHANGED <<manifest, disk, upstream>>

InstallStart ==
    /\ pc = "idle"
    /\ hist.steps < MaxSteps
    /\ \E url \in InstallUrls, yes \in BOOLEAN : InstallBody(HBegin("install", url), url, yes)
    /\ UNCHANGED resVars

(* install.rs install_single_skill, lines 118-123: the let-chain that     *)
(* decides "already installed and up to date"                             *)
never_up_to_date(config, skill_name, sha) == FALSE

up_to_date_by_checksum_only(config, skill_name, sha) ==
    /\ skill_name \in DOMAIN config
    /\ skill_name \in DOMAIN disk
    /\ LET checksum == calculate_checksum(disk[skill_name]) IN
       checksum.ok /\ checksum.val = config[skill_name].checksum

up_to_date(config, skill_name, sha) ==
    /\ skill_name \in DOMAIN config
    /\ skill_name \in DOMAIN disk
    /\ sha = config[skill_name].sha
    /\ LET checksum == calculate_checksum(disk[skill_name]) IN
       checksum.ok /\ checksum.val = config[skill_name].checksum

(* install.rs install_single_skill, lines 95-136; `yes` is not read after *)
(* the confirmation and is dropped from the locals                        *)
SingleCheck ==
    /\ pc = "single_check"
    /\ UNCHANGED <<resVars, disk, upstream>>
    /\ \E cond \in LoadConds :
       LET ld == from_file(TomlFile(manifest, cond))
           hl == Loading(hist, cond)
           config == ld.skills
           name == cur.name
           known == name \in DOMAIN config
           conflict == known /\ config[name].source_url # cur.url
           cs == IF name \in DOMAIN disk THEN calculate_checksum(disk[name])
                 ELSE [ok |-> FALSE, val |-> ""]
           upToDate == up_to_date(config, name, cur.sha)
           moved == /\ known
                    /\ name \in DOMAIN disk
                    /\ cs.ok
                    /\ cs.val = config[name].checksum
                    /\ cur.sha # config[name].sha
       IN IF ~ld.ok THEN Ret(Faulted(hl), "Err:" \o ld.err) /\ UNCHANGED manifest ELSE
          \E reply \in IF conflict THEN Replies ELSE {NoReply} :
          LET h == [hl EXCEPT !.prompts = IF conflict /\ ~cur.yes /\ reply.tty
                                            THEN @ + 1 ELSE @,
                                !.consent = conflict /\ (cur.yes \/ reply = Reply(TRUE, "y")),
                                !.moved = moved]
          IN IF conflict /\ ~confirm_action(cur.yes, reply)
             THEN Ret(h, "Ok:cancelled") /\ UNCHANGED manifest
             ELSE IF upToDate
             THEN IF conflict
                  THEN \/ /\ manifest' = [config EXCEPT ![name].source_url = cur.url]
                          /\ Ret(Saving(h), "Ok:uptodate")
                       \/ /\ CanFail
                          /\ UNCHANGED manifest
                          /\ Ret(FsError(Faulted(Saving(h))), "Err:IoError")
                  ELSE Ret(h, "Ok:uptodate") /\ UNCHANGED manifest
             ELSE /\ pc' = "prepare"
                  /\ cur' = [cur EXCEPT !.config = config, !.yes = FALSE,
                                        !.temp = TempOf("install", name)]
                  /\ hist' = h
                  /\ UNCHANGED manifest

(* temp dir: remove_dir_all if it exists, then create_dir_all.             *)
(* install.rs 141-145 and 254-258 propagate both errors.                   *)
Prepare ==
    /\ pc = "prepare"
    /\ UNCHANGED <<resVars, manifest, upstream>>
    /\ \/ /\ CanFail
          /\ cur.temp \in DOMAIN disk
          /\ UNCHANGED disk
          /\ Ret(FsError(Faulted(hist)), "Err:IoError")
       \/ /\ CanFail
          /\ disk' = Drop(disk, cur.temp)
          /\ Ret(FsError(Faulted(hist)), "Err:IoError")
       \/ /\ disk' = Put(disk, cur.temp, {})
          /\ pc' = "fetch"
          /\ UNCHANGED <<cur, hist>>

DownloadFailed_aborting(d, e, h) ==
    /\ UNCHANGED <<manifest, upstream>>
    /\ disk' = Drop(d, cur.temp)
    /\ Ret([h EXCEPT !.detail = IF e = "PathNotFound" THEN cur.resolved.path ELSE ""],
           "Err:" \o e)

DownloadFailed_keeping_staging(d, e, h) ==
    /\ UNCHANGED <<manifest, upstream>>
    /\ disk' = d
    /\ IF cur.op = "sync"
       THEN /\ pc' = "sync_item"
            /\ cur' = [cur EXCEPT !.todo = Tail(@)]
            /\ hist' = h
       ELSE Ret([h EXCEPT !.detail = IF e = "PathNotFound" THEN cur.resolved.path
                                     ELSE ""],
                "Err:" \o e)

\* the download failed with the directories as in d:
\* `fs::remove_dir_all(&temp_dir).ok()`, then the error is returned (install)
\* or the loop goes on (sync)
DownloadFailed(d, e, h) ==
    /\ UNCHANGED <<manifest, upstream>>
    /\ \E cleaned \in {TRUE} \cup {b \in {FALSE} : h.faults < MaxFaults} :
          /\ disk' = IF cleaned THEN Drop(d, cur.temp) ELSE d
          /\ LET hc == IF cleaned THEN h
                       ELSE [Faulted(h) EXCEPT !.uncleaned = TRUE]
             IN
             IF cur.op = "sync"
             THEN /\ pc' = "sync_item"
                  /\ cur' = [cur EXCEPT !.todo = Tail(@)]
                  /\ hist' = hc
             ELSE Ret([hc EXCEPT !.detail = IF e = "PathNotFound" THEN cur.resolved.path
                                            ELSE ""],
                      "Err:" \o e)

\* the tarball request of download_and_extract (github.rs 67-85)
TarballError(status) ==
    CASE status = "404" -> "NotFound"
      [] status = "403" -> "Forbidden"
      [] status = "429" -> "RateLimited"
      [] status = "transport" -> "NetworkError"
      [] OTHER -> "HttpError"

\* what can be wrong with the part of the archive this download extracts
DefectChoices ==
    IF ~CanFail THEN {NoDefect}
    ELSE {d \in Defects : \/ d = NoDefect
                          \/ cur.op = "batch" /\ cur.resolved.path = Container
                          \/ d.name = cur.name}

(* github.rs download_and_extract, lines 62-130: the request, then the     *)
(* entry loop.  The loop unpacks the matching entries in stream order; an  *)
(* unpack can fail (IoError) after any number of them, and no match at all *)
(* is PathNotFound.  The caller cleans up after a failure.                 *)
Fetch ==
    /\ pc = "fetch"
    /\ UNCHANGED resVars
    /\ LET h == [hist EXCEPT !.downloads = @ + 1,
                              !.fetched = IF cur.op = "batch" THEN @ ELSE @ \cup {cur.name}] IN
       \E status \in {IF RefExists(cur.resolved.ref) THEN "200" ELSE "404"}
                        \cup (IF CanFail THEN {"403"} ELSE {}) :
          IF status # "200"
          THEN DownloadFailed(disk, TarballError(status),
                              IF status = "403" THEN Faulted(h) ELSE h)
          ELSE \E defect \in DefectChoices :
               \E ms \in {Extracted[VersionsAt(cur.resolved.ref)][defect][cur.resolved.path]} :
               LET hd == [h EXCEPT !.faults = IF defect = NoDefect THEN @ ELSE @ + 1]
                   staged(k) == [disk EXCEPT ![cur.temp] = UnpackAll(@, SubSeq(ms, 1, k))]
               IN \/ /\ ms = <<>>
                     /\ DownloadFailed(disk, "PathNotFound", hd)
                  \/ /\ ms # <<>>
                     /\ disk' = staged(Len(ms))
                     /\ pc' = CASE cur.op = "install" -> "single_remove"
                                [] cur.op = "batch" -> "batch_item"
                                [] OTHER -> "sync_validate"
                     /\ hist' = [hd EXCEPT !.extracted = TRUE,
                                           !.stage = IF cur.op = "batch" THEN @
                                                     ELSE Put(@, cur.name,
                                                              staged(Len(ms))[cur.temp])]
                     /\ UNCHANGED <<manifest, upstream, cur>>
                  \/ /\ hd.faults < MaxFaults
                     /\ \E k \in 0..(Len(ms) - 1) :
                           DownloadFailed(staged(k), "IoError", FsError(Faulted(hd)))

\* fs::remove_dir_all deletes a tree entry by entry, children first, and the
\* emptied directory last: the entries it may delete next
Leaves(tree) ==
    {e \in tree : \A x \in tree : ~StartsWith(x[1], e[1] \o "/")}

\* fs::rename(temp, dest) replaces nothing but a missing or empty directory
CanRename(dest) == IF dest \in DOMAIN disk THEN disk[dest] = {} ELSE TRUE

(* install.rs install_single_skill, lines 152-177 *)
SingleRemove ==
    /\ pc = "single_remove"
    /\ UNCHANGED <<resVars, manifest, upstream>>
    /\ IF cur.name \in DOMAIN disk
       THEN \/ /\ disk[cur.name] = {}
               /\ disk' = Drop(disk, cur.name)
               /\ pc' = "single_rename"
               /\ UNCHANGED <<cur, hist>>
            \/ /\ \E e \in Leaves(disk[cur.name]) :
                     disk' = [disk EXCEPT ![cur.name] = @ \ {e}]
               /\ UNCHANGED <<pc, cur, hist>>
            \/ /\ CanFail
               /\ UNCHANGED disk
               /\ Ret(FsError(Faulted(hist)), "Err:IoError")
       ELSE /\ pc' = "single_rename"
            /\ UNCHANGED <<disk, cur, hist>>

SingleRename ==
    /\ pc = "single_rename"
    /\ UNCHANGED <<resVars, manifest, upstream>>
    /\ \/ /\ CanRename(cur.name)
          /\ disk' = Put(Drop(disk, cur.temp), cur.name, disk[cur.temp])
          /\ pc' = "single_record"
          /\ hist' = [hist EXCEPT !.replaced = @ \cup {cur.name}]
          /\ UNCHANGED cur
       \/ /\ CanFail
          /\ UNCHANGED disk
          /\ Ret(FsError(Faulted(hist)), "Err:IoError")

SingleRecord ==
    /\ pc = "single_record"
    /\ UNCHANGED <<resVars, disk, upstream>>
    /\ LET cs == calculate_checksum(disk[cur.name]) IN
       IF ~cs.ok
       THEN Ret(FsError(hist), "Err:IoError") /\ UNCHANGED manifest
       ELSE \E answer \in {"200"} \cup (IF CanFail THEN {"403"} ELSE {}) :
            LET commit == resolve_commit_sha(answer)
                h == [hist EXCEPT !.queries = @ + 1]
            IN
            IF ~commit.ok
            THEN Ret(Faulted(h), "Err:" \o commit.err) /\ UNCHANGED manifest
            ELSE LET entry == SkillEntry(cur.url, cur.resolved.slug,
                                         CommitSha(upstream[cur.name]), cur.sha,
                                         cur.resolved.path, cs.val)
                 IN \/ /\ manifest' = Put(cur.config, cur.name, entry)
                       /\ Ret(Saving(h), "Ok")
                    \/ /\ CanFail
                       /\ UNCHANGED manifest
                       /\ Ret(FsError(Faulted(Saving(h))), "Err:IoError")

skill_needs_update_by_sha(config, skill_name, sha) ==
    IF skill_name \notin DOMAIN config THEN TRUE
    ELSE IF skill_name \notin DOMAIN disk THEN TRUE
    ELSE sha # config[skill_name].sha

(* install.rs skill_needs_update, lines 181-201 *)
skill_needs_update(config, skill_name, sha) ==
    IF skill_name \notin DOMAIN config THEN TRUE
    ELSE IF skill_name \notin DOMAIN disk THEN TRUE
    ELSE IF sha # config[skill_name].sha THEN TRUE
    ELSE LET cs == calculate_checksum(disk[skill_name]) IN
         IF ~cs.ok THEN TRUE ELSE cs.val # config[skill_name].checksum

(* install.rs install_batch_skills, lines 211-249 *)
BatchCheck ==
    /\ pc = "batch_check"
    /\ UNCHANGED <<resVars, manifest, disk, upstream>>
    /\ \E cond \in LoadConds :
       LET ld == from_file(TomlFile(manifest, cond))
           hl == Loading(hist, cond)
           config == ld.skills
           skills_to_update ==
               SelectSeq(skill_entries(cur.entries),
                         LAMBDA e : skill_needs_update(config, e.name, e.sha))
       IN IF ~ld.ok THEN Ret(Faulted(hl), "Err:" \o ld.err)
          ELSE IF skill_entries(cur.entries) = <<>>
          THEN Ret(hl, "Err:NoSkillsFound")
          ELSE IF skills_to_update = <<>>
          THEN Ret(hl, "Ok:uptodate")
          ELSE \E reply \in Replies :
               LET h == [hl EXCEPT !.prompts = IF cur.yes \/ ~reply.tty THEN @ ELSE @ + 1,
                                     !.consent = cur.yes \/ reply = Reply(TRUE, "y")]
               IN
               IF ~confirm_action(cur.yes, reply)
               THEN Ret(h, "Ok:cancelled")
               ELSE /\ pc' = "prepare"
                    /\ cur' = [cur EXCEPT !.config = config, !.yes = FALSE,
                                          !.todo = skills_to_update,
                                          !.temp = TempOf("batch", "")]
                    /\ hist' = [h EXCEPT !.selected =
                                   {skills_to_update[i].name : i \in DOMAIN skills_to_update}]

(* install.rs install_batch_skills, lines 269-353: one sub-skill per step, *)
(* then the cleanup and the summary                                        *)
BatchItem ==
    /\ pc = "batch_item"
    /\ UNCHANGED <<resVars, upstream>>
    /\ IF cur.todo = <<>>
       THEN /\ UNCHANGED manifest
            /\ \E cleaned \in {TRUE} \cup {b \in {FALSE} : CanFail} :
                  /\ disk' = IF cleaned THEN Drop(disk, cur.temp) ELSE disk
                  /\ LET hc == IF cleaned THEN hist
                               ELSE IF cur.failed # <<>> THEN Faulted(hist)
                               ELSE FsError(Faulted(hist))
                     IN
                     IF cur.failed # <<>>
                     THEN Ret([hc EXCEPT !.successful = cur.successful,
                                         !.failed = cur.failed],
                              "Err:BatchInstallationFailed")
                     ELSE Ret(hc, "Ok")
       ELSE LET subdir == Head(cur.todo).name
                sha == Head(cur.todo).sha
                h == [hist EXCEPT !.attempted = @ \cup {subdir},
                                  !.stage = IF SubExists(disk[cur.temp], subdir)
                                            THEN Put(@, subdir, SubTree(disk[cur.temp], subdir))
                                            ELSE @]
                hb == [h EXCEPT !.broken = @ \cup {subdir}]
                put(x) == [x EXCEPT !.replaced = @ \cup {subdir}]
                skip == [cur EXCEPT !.todo = Tail(@), !.failed = Append(@, subdir)]
                removed == Drop(disk, subdir)
                moved == Put([disk EXCEPT ![cur.temp] = WithoutSub(@, subdir)],
                             subdir, SubTree(disk[cur.temp], subdir))
                cs == calculate_checksum(moved[subdir])
                entry == SkillEntry(cur.url \o "/" \o subdir, cur.resolved.slug,
                                    CommitSha(IF subdir \in Names THEN upstream[subdir]
                                              ELSE 1), sha,
                                    cur.resolved.path \o "/" \o subdir, cs.val)
                config == Put(cur.config, subdir, entry)
            IN IF ~SubExists(disk[cur.temp], subdir)
               THEN /\ cur' = skip
                    /\ hist' = hb
                    /\ UNCHANGED <<pc, manifest, disk>>
               ELSE \/ /\ CanFail                    \* remove_dir_all fails
                       /\ subdir \in DOMAIN disk
                       /\ cur' = skip
                       /\ hist' = FsError(Faulted(hb))
                       /\ UNCHANGED <<pc, manifest, disk>>
                    \/ /\ CanFail                    \* rename fails
                       /\ disk' = removed
                       /\ cur' = skip
                       /\ hist' = FsError(Faulted(hb))
                       /\ UNCHANGED <<pc, manifest>>
                    \/ /\ disk' = moved
                       /\ IF ~cs.ok
                          THEN /\ cur' = skip
                               /\ hist' = FsError(put(hb))
                               /\ UNCHANGED <<pc, manifest>>
                          ELSE \E outcomeOf \in {<<"200", TRUE>>} \cup
                                       (IF CanFail THEN {<<"403", TRUE>>, <<"200", FALSE>>}
                                        ELSE {}) :
                               LET commit == resolve_commit_sha(outcomeOf[1])
                                   saved == outcomeOf[2]
                                   asked(x) == [x EXCEPT !.queries = @ + 1]
                               IN
                               IF ~commit.ok
                               THEN Ret(Faulted(asked(put(hb))), "Err:" \o commit.err)
                                    /\ UNCHANGED manifest
                               ELSE IF ~saved
                               THEN Ret(FsError(Faulted(Saving(asked(put(hb))))), "Err:IoError")
                                    /\ UNCHANGED manifest
                               ELSE /\ manifest' = config
                                    /\ cur' = [cur EXCEPT !.todo = Tail(@),
                                                          !.config = config,
                                                          !.successful = @ + 1]
                                    /\ hist' = Saving(asked(put(h)))
                                    /\ UNCHANGED pc

(* sync.rs sync_skills, lines 10-40 *)
SyncStart ==
    /\ pc = "idle"
    /\ hist.steps < MaxSteps
    /\ UNCHANGED <<resVars, manifest, disk, upstream>>
    /\ \E cond \in LoadConds :
       LET ld == from_file(TomlFile(manifest, cond))
           h == Loading(HBegin("sync", ""), cond)
           config == ld.skills
       IN IF ~ld.ok THEN Ret(Faulted(h), "Err:" \o ld.err) ELSE
          \/ CanFail /\ Ret(FsError(Faulted(h)), "Err:IoError")   \* read_dir fails
          \/ IF DOMAIN config = {}
             THEN Ret(h, "Ok")
             ELSE /\ pc' = "sync_item"
                  /\ cur' = [Cur0 EXCEPT !.op = "sync", !.config = config,
                                         !.todo = SortNames(DOMAIN config)]
                  /\ hist' = h

(* sync.rs sync_skills, lines 46-75: exists is skill_dir.exists(), cs the  *)
(* result of calculate_checksum, reply the line read from stdin           *)
needs_download_if_confirmed(exists, cs, entry, reply) ==
    IF exists /\ cs.ok /\ cs.val = entry.checksum THEN FALSE
    ELSE IF exists /\ ~cs.ok THEN TRUE
    ELSE ToLower(reply) \in {"y", "yes"}

needs_download_on_mismatch(exists, cs, entry, reply) ==
    IF ~exists THEN TRUE
    ELSE IF cs.ok /\ cs.val = entry.checksum THEN FALSE
    ELSE TRUE

needs_download_unless_declined(exists, cs, entry, reply) ==
    IF ~exists THEN TRUE
    ELSE IF cs.ok THEN ToLower(reply) \notin {"n", "no"}
    ELSE TRUE

needs_download(exists, cs, entry, reply) ==
    IF ~exists THEN TRUE
    ELSE IF cs.ok /\ cs.val = entry.checksum THEN FALSE
    ELSE IF cs.ok THEN ToLower(reply) \in {"y", "yes"}
    ELSE TRUE

(* sync.rs sync_skills, lines 78-82: the GitHubUrl of a re-download is     *)
(* built from the record alone, its `sha` serving as the ref               *)
sync_github_url_from_source(entry) == candidates(parse(entry.source_url))[1]

sync_github_url(entry) == GitHubUrl(entry.slug, entry.sha, entry.path)

(* sync.rs sync_skills, lines 42-91 and 133-135 *)
SyncItem ==
    /\ pc = "sync_item"
    /\ UNCHANGED <<resVars, upstream>>
    /\ IF cur.todo = <<>>
       THEN /\ UNCHANGED disk
            /\ \/ manifest' = cur.config /\ Ret(Saving(hist), "Ok")
               \/ CanFail /\ UNCHANGED manifest
                  /\ Ret(FsError(Faulted(Saving(hist))), "Err:IoError")
       ELSE LET name == Head(cur.todo)
                entry == cur.config[name]
                exists == name \in DOMAIN disk
                cs == IF exists THEN calculate_checksum(disk[name])
                      ELSE [ok |-> FALSE, val |-> ""]
                ask == exists /\ cs.ok /\ cs.val # entry.checksum
                temp == TempOf("sync", name)
            IN /\ UNCHANGED manifest
               /\ \E reply \in IF ask THEN {"y", "n"} ELSE {"none"} :
                  LET download == needs_download(exists, cs, entry, reply)
                      h == [hist EXCEPT !.seen = Append(@, name),
                                        !.fserr = IF exists /\ ~cs.ok THEN TRUE ELSE @,
                                        !.prompts = IF ask THEN @ + 1 ELSE @,
                                        !.asked = IF ask THEN @ \cup {name} ELSE @,
                                        !.declined = IF ask /\ reply # "y"
                                                     THEN @ \cup {name} ELSE @,
                                        !.absent = IF exists THEN @ ELSE @ \cup {name}]
                      go == [cur EXCEPT !.name = name, !.temp = temp,
                                        !.resolved = sync_github_url(entry)]
                  IN IF ~download
                     THEN /\ cur' = [cur EXCEPT !.todo = Tail(@)]
                          /\ hist' = h
                          /\ UNCHANGED <<pc, disk>>
                     ELSE \/ /\ disk' = Put(disk, temp, {})
                             /\ pc' = "fetch"
                             /\ cur' = go
                             /\ hist' = h
                          \/ /\ CanFail                \* removal failed, ignored
                             /\ temp \in DOMAIN disk
                             /\ UNCHANGED disk
                             /\ pc' = "fetch"
                             /\ cur' = go
                             /\ hist' = FsError(Faulted(h))
                          \/ /\ CanFail                \* create_dir_all failed
                             /\ disk' = Drop(disk, temp)
                             /\ cur' = [cur EXCEPT !.todo = Tail(@)]
                             /\ hist' = FsError(Faulted(h))
                             /\ UNCHANGED pc

(* sync.rs sync_skills, lines 93-99 *)
SyncValidate ==
    /\ pc = "sync_validate"
    /\ UNCHANGED <<resVars, manifest, upstream>>
    /\ IF ensure_skill_manifest(disk[cur.temp])
       THEN /\ pc' = "sync_remove"
            /\ UNCHANGED <<disk, cur, hist>>
       ELSE DownloadFailed(disk, "MissingSkillManifest", hist)

(* sync.rs sync_skills, lines 101-103: `fs::remove_dir_all(&skill_dir).ok()` *)
SyncRemove ==
    /\ pc = "sync_remove"
    /\ UNCHANGED <<resVars, manifest, upstream, cur>>
    /\ IF cur.name \in DOMAIN disk
       THEN \/ /\ disk[cur.name] = {}
               /\ disk' = Drop(disk, cur.name)
               /\ pc' = "sync_rename"
               /\ UNCHANGED hist
            \/ /\ \E e \in Leaves(disk[cur.name]) :
                     disk' = [disk EXCEPT ![cur.name] = @ \ {e}]
               /\ UNCHANGED <<pc, hist>>
            \/ /\ CanFail
               /\ UNCHANGED disk
               /\ pc' = "sync_rename"
               /\ hist' = FsError(Faulted(hist))
       ELSE pc' = "sync_rename" /\ UNCHANGED <<disk, hist>>

with_checksum_and_pinned_source(entry, checksum) ==
    [entry EXCEPT !.checksum = checksum,
                  !.source_url = "https://github.com/" \o entry.slug \o "/tree/"
                                     \o entry.sha \o "/" \o entry.path]

(* sync.rs sync_skills, lines 108-113: `entry.checksum = checksum` on the   *)
(* record of the re-downloaded skill                                       *)
with_checksum(entry, checksum) == [entry EXCEPT !.checksum = checksum]

saved_per_item(file, config) == config

(* sync.rs sync_skills, lines 108-113: the new checksum goes into the      *)
(* config in memory; skills.toml is not written inside the loop           *)
saved_in_loop(file, config) == file

(* sync.rs sync_skills, lines 104-123 *)
SyncRename ==
    /\ pc = "sync_rename"
    /\ UNCHANGED <<resVars, upstream>>
    /\ \/ /\ CanRename(cur.name)
          /\ disk' = Put(Drop(disk, cur.temp), cur.name, disk[cur.temp])
          /\ LET cs == calculate_checksum(disk[cur.temp]) IN
             cur' = [cur EXCEPT !.todo = Tail(@),
                                !.config = IF cs.ok
                                           THEN [@ EXCEPT ![cur.name] =
                                                    with_checksum(@, cs.val)]
                                           ELSE @]
          /\ manifest' = saved_in_loop(manifest, cur'.config)
          /\ pc' = "sync_item"
          /\ hist' = [hist EXCEPT !.replaced = @ \cup {cur.name},
                                  !.fserr = IF calculate_checksum(disk[cur.temp]).ok
                                            THEN @ ELSE TRUE]
       \/ /\ ~CanRename(cur.name)           \* the destination is still there
          /\ DownloadFailed(disk, "IoError", FsError(hist))
       \/ /\ CanRename(cur.name)
          /\ CanFail
          /\ DownloadFailed(disk, "IoError", FsError(Faulted(hist)))

(* uninstall.rs uninstall_skill *)
(* uninstall.rs uninstall_skill, lines 11-20: removed_any is set by the    *)
(* directory's removal and by the record's                                *)
removed_any_record_only(dirRemoved, recordRemoved) == recordRemoved

removed_any(dirRemoved, recordRemoved) ==
    IF dirRemoved THEN TRUE ELSE recordRemoved

(* uninstall.rs uninstall_skill, lines 22-26 *)
uninstall_report(removed) ==
    IF removed THEN "Ok:uninstalled" ELSE "Ok:notinstalled"

(* uninstall.rs uninstall_skill *)
UninstallStart ==
    /\ pc = "idle"
    /\ hist.steps < MaxSteps
    /\ UNCHANGED <<resVars, manifest, upstream>>
    /\ \E name \in Names, cond \in LoadConds :
       LET ld == from_file(TomlFile(manifest, cond))
           h == Loading(HBegin("uninstall", name), cond)
           config == ld.skills
           dir == name \in DOMAIN disk
       IN
       IF ~ld.ok THEN Ret(Faulted(h), "Err:" \o ld.err) /\ UNCHANGED disk ELSE
       \/ dir /\ CanFail /\ UNCHANGED disk /\ Ret(Faulted(h), "Err:IoError")
       \/ /\ disk' = IF dir THEN Drop(disk, name) ELSE disk
          /\ IF name \in DOMAIN config
             THEN /\ pc' = "uninstall_save"
                  /\ cur' = [Cur0 EXCEPT !.op = "uninstall", !.name = name,
                                         !.config = Drop(config, name)]
                  /\ hist' = h
             ELSE Ret(h, uninstall_report(removed_any(dir, FALSE)))

UninstallSave ==
    /\ pc = "uninstall_save"
    /\ UNCHANGED <<resVars, disk, upstream>>
    /\ \/ /\ manifest' = cur.config
          /\ Ret(Saving(hist),
                 uninstall_report(removed_any(cur.name \in DOMAIN hist.pre.disk, TRUE)))
       \/ CanFail /\ UNCHANGED manifest /\ Ret(Faulted(Saving(hist)), "Err:IoError")

(* update.rs update_skill, line 15: the URL handed to install_skill *)
update_source_pinned(entry) ==
    "https://github.com/" \o entry.slug \o "/tree/" \o entry.sha \o "/" \o entry.path

update_source(entry) == entry.source_url

(* update.rs update_skill *)
UpdateStart ==
    /\ pc = "idle"
    /\ hist.steps < MaxSteps
    /\ UNCHANGED resVars
    /\ \E name \in Names, yes \in BOOLEAN, cond \in LoadConds :
       LET ld == from_file(TomlFile(manifest, cond))
           config == ld.skills
       IN
       IF ~ld.ok
       THEN Ret(Faulted(Loading(HBegin("update", name), cond)), "Err:" \o ld.err)
            /\ UNCHANGED <<manifest, disk, upstream>>
       ELSE IF name \notin DOMAIN config
       THEN Ret(Loading(HBegin("update", name), cond), "Ok:notinstalled")
            /\ UNCHANGED <<manifest, disk, upstream>>
       ELSE InstallBody([Loading(HBegin("install", update_source(config[name])), cond)
                            EXCEPT !.update = name],
                        update_source(config[name]), yes)

(* The world outside the tool: a push to the repository, a local edit, a   *)
(* skill directory deleted by hand                                        *)
World ==
    [Hist0 EXCEPT !.steps = hist.steps + 1, !.faults = hist.faults,
                  !.faults0 = hist.faults, !.op = "world", !.quiet = FALSE]

Push ==
    /\ pc = "idle"
    /\ hist.steps < MaxSteps
    /\ \E n \in Names :
          /\ upstream[n] < MaxVersion
          /\ upstream' = [upstream EXCEPT ![n] = @ + 1]
    /\ hist' = World
    /\ UNCHANGED <<pc, resVars, manifest, disk, cur>>

\* what a local change makes of a.txt: other content, or a file that can no
\* longer be read
LocalEdits == {<<"a.txt", "file", "edited">>, <<"a.txt", "noread", "edited">>}

EditLocal ==
    /\ pc = "idle"
    /\ hist.steps < MaxSteps
    /\ \E n \in Names \cap DOMAIN disk, new \in LocalEdits :
          /\ \E e \in disk[n] : e[1] = "a.txt" /\ e[2] = "file" /\ e[3] # "edited"
          /\ disk' = [disk EXCEPT ![n] = {e \in @ : e[1] # "a.txt"} \cup {new}]
    /\ hist' = World
    /\ UNCHANGED <<pc, resVars, manifest, upstream, cur>>

DeleteLocal ==
    /\ pc = "idle"
    /\ hist.steps < MaxSteps
    /\ \E n \in Names \cap DOMAIN disk : disk' = Drop(disk, n)
    /\ hist' = World
    /\ UNCHANGED <<pc, resVars, manifest, upstream, cur>>

\* what a sync that was killed between extraction and rename leaves in its
\* staging directory
Stale == {<<"old.txt", "file", "stale">>}

\* the skills whose sync is taken to have been killed earlier
StaleNames == {"foo"}

Interrupted ==
    /\ pc = "idle"
    /\ hist.steps < MaxSteps
    /\ \E n \in StaleNames \cap DOMAIN manifest :
          /\ TempOf("sync", n) \notin DOMAIN disk
          /\ disk' = Put(disk, TempOf("sync", n), Stale)
    /\ hist' = [World EXCEPT !.steps = hist.steps]
    /\ UNCHANGED <<pc, resVars, manifest, upstream, cur>>

Init ==
    /\ pc = "idle"
    /\ urlSpec = [slug |-> "", tail |-> <<>>]
    /\ answers = <<>>
    /\ queried = <<>>
    /\ outcome = Ok(0)
    /\ manifest = <<>>
    /\ disk = <<>>
    /\ upstream = [n \in Names |-> 1]
    /\ cur = Cur0
    /\ hist = Hist0

Next ==
    \/ InstallStart
    \/ SingleCheck
    \/ Prepare
    \/ Fetch
    \/ SingleRemove
    \/ SingleRename
    \/ SingleRecord
    \/ BatchCheck
    \/ BatchItem
    \/ SyncStart
    \/ SyncItem
    \/ SyncValidate
    \/ SyncRemove
    \/ SyncRename
    \/ UninstallStart
    \/ UninstallSave
    \/ UpdateStart
    \/ Push
    \/ EditLocal
    \/ DeleteLocal
    \/ Interrupted

Spec == Init /\ [][Next]_vars

----------------------------------------------------------------------------
(* SpecTopo: single skill or batch, decided for every listing of up to     *)
(* MaxListing entries.  answers holds what the remote lists: the entries   *)
(* of the resolved location and of each sub-directory.                     *)

MaxListing == 2

TopoNames == {"SKILL.md", "skill.md", "SKILL.mdx", "foo", "docs"}

TopoItems == {Item(n, t, "") : n \in TopoNames, t \in {"file", "dir"}}

Listings == UNION {[1..k -> TopoItems] : k \in 0..MaxListing}

ChildListings ==
    {<<Item("Skill.MD", "file", "")>>, <<Item("README.md", "file", "")>>,
     <<Item("SKILL.md", "dir", "")>>}

InitTopo ==
    /\ pc = "start"
    /\ urlSpec = [slug |-> "owner/repo", tail |-> <<"main", "skills">>]
    /\ \E l \in Listings, c \in [{"foo", "docs"} -> ChildListings] :
          answers = [entries |-> l,
                     children |-> [d \in TopoNames |->
                                      IF d \in DOMAIN c THEN c[d]
                                      ELSE <<Item("README.md", "file", "")>>]]
    /\ queried = <<>>
    /\ outcome = Ok(0)
    /\ FsIdle

\* install_skill's dispatch (install.rs 65-83) and the members
\* install_batch_skills takes (215-219)
DetectInstall ==
    /\ pc = "start"
    /\ pc' = "install_skill"
    /\ queried' = <<>>
    /\ outcome' = IF is_single(answers.entries)
                  THEN [kind |-> "Single", dirs |-> <<>>]
                  ELSE LET es == skill_entries(answers.entries) IN
                       [kind |-> IF es = <<>> THEN "NoSkillsFound" ELSE "Batch",
                        dirs |-> [i \in DOMAIN es |-> es[i].name]]
    /\ UNCHANGED <<urlSpec, answers>>
    /\ UNCHANGED fsVars

DetectSkillType ==
    /\ pc = "start"
    /\ pc' = "detect_skill_type"
    /\ LET r == detect_skill_type(answers.entries, answers.children) IN
       /\ queried' = r.listed
       /\ outcome' = [kind |-> r.kind, dirs |-> r.dirs]
    /\ UNCHANGED <<urlSpec, answers>>
    /\ UNCHANGED fsVars

NextTopo == DetectInstall \/ DetectSkillType

SpecTopo == InitTopo /\ [][NextTopo]_vars

----------------------------------------------------------------------------
(* SpecArch: download_and_extract into an empty directory, for every       *)
(* archive of up to MaxEntries entries.  answers holds what the remote     *)
(* sends (status and archive) and which unpack, if any, the filesystem     *)
(* refuses.                                                                *)

MaxEntries == 3

ArchPath == "skills/foo"

ArchPool ==
    {ArchEntry("pax_global_header", "file", ""),
     ArchEntry("w/", "dir", ""),
     ArchEntry("w/skills/foo/", "dir", ""),
     ArchEntry("w/skills/foo/SKILL.md", "file", "# foo"),
     ArchEntry("w/skills/foobar/x", "file", "x"),
     ArchEntry("w/skills/foo", "file", "f"),
     ArchEntry("w/other/skills/foo/a", "file", "a"),
     ArchEntry("", "corrupt", "")}

Archives == UNION {[1..k -> ArchPool] : k \in 0..MaxEntries}

(* github.rs download_and_extract, lines 62-130: the request, the entry    *)
(* loop up to the first entry that cannot be read, the unpack that fails   *)
(* (fail = 0: none), and found_any                                         *)
download_and_extract(status, arch, path, fail) ==
    LET bad == {i \in DOMAIN arch : arch[i].kind = "corrupt"}
        seen == IF bad = {} THEN arch
                ELSE SubSeq(arch, 1, (CHOOSE i \in bad : \A j \in bad : i <= j) - 1)
        ms == Unpacked(seen, path)
    IN IF status # "200" THEN [err |-> TarballError(status), tree |-> {}]
       ELSE IF fail \in 1..Len(ms)
       THEN [err |-> "IoError", tree |-> UnpackAll({}, SubSeq(ms, 1, fail - 1))]
       ELSE IF bad # {} THEN [err |-> "InvalidArchive", tree |-> UnpackAll({}, ms)]
       ELSE IF ms = <<>> THEN [err |-> "PathNotFound", tree |-> {}]
       ELSE [err |-> "", tree |-> UnpackAll({}, ms)]

InitArch ==
    /\ pc = "start"
    /\ urlSpec = [slug |-> "o/r", tail |-> <<"main", "skills", "foo">>]
    /\ \E s \in {"200", "404", "403", "429", "500", "transport"}, a \in Archives, f \in 0..1 :
          answers = [status |-> s, arch |-> a, fail |-> f]
    /\ queried = <<>>
    /\ outcome = Ok(0)
    /\ FsIdle

Extract ==
    /\ pc = "start"
    /\ pc' = "download_and_extract"
    /\ outcome' = download_and_extract(answers.status, answers.arch, ArchPath, answers.fail)
    /\ UNCHANGED <<urlSpec, answers, queried>>
    /\ UNCHANGED fsVars

NextArch == Extract

SpecArch == InitArch /\ [][NextArch]_vars

----------------------------------------------------------------------------
(* SpecSum: calculate_checksum of two directories, for every pair of       *)
(* trees of up to MaxFiles entries.  answers holds the two trees.          *)

MaxFiles == 2

SumPool ==
    {<<"a", "file", "bc">>, <<"ab", "file", "c">>, <<"a", "file", "b">>,
     <<"b", "file", "">>, <<"a", "noread", "">>,
     <<"d", "dir", "">>, <<"d", "nolist", "">>, <<"d/a", "file", "b">>}

\* the trees a directory can hold: one entry per path, a file's directory present
SumTrees ==
    {t \in SUBSET SumPool :
        /\ Cardinality(t) <= MaxFiles
        /\ \A x \in t, y \in t : x[1] = y[1] => x = y
        /\ \A x \in t : x[1] = "d/a" => \E y \in t : y[1] = "d"}

InitSum ==
    /\ pc = "start"
    /\ urlSpec = [slug |-> "", tail |-> <<>>]
    /\ answers \in SumTrees \X SumTrees
    /\ queried = <<>>
    /\ outcome = Ok(0)
    /\ FsIdle

Checksum ==
    /\ pc = "start"
    /\ pc' = "calculate_checksum"
    /\ outcome' = <<calculate_checksum(answers[1]), calculate_checksum(answers[2])>>
    /\ UNCHANGED <<urlSpec, answers, queried>>
    /\ UNCHANGED fsVars

NextSum == Checksum

SpecSum == InitSum /\ [][NextSum]_vars

----------------------------------------------------------------------------
(* SpecParse: GitHubUrlSpec::parse on URLs put together from a prefix, an  *)
(* owner, a repository, the word after it, up to MaxSegs further segments  *)
(* (some empty) and trailing slashes                                       *)

MaxSegs == 3

UrlPrefixes ==
    {"https://github.com/", "http://github.com/", "https://gitlab.com/",
     "see https://github.com/"}

UrlWords == {"tree", "blob", ""}

UrlSegs == UNION {[1..n -> {"main", "foo", ""}] : n \in 0..MaxSegs}

UrlParts ==
    [prefix : UrlPrefixes, owner : {"owner", ""}, repo : {"repo", ""},
     word : UrlWords, segs : UrlSegs, trail : {"", "/", "//"}]

BuildUrl(p) ==
    p.prefix \o p.owner \o "/" \o p.repo \o "/" \o p.word
        \o (IF p.segs = <<>> THEN "" ELSE "/" \o Join(p.segs)) \o p.trail

InitParse ==
    /\ pc = "start"
    /\ answers \in UrlParts
    /\ urlSpec = [slug |-> "", tail |-> <<>>]
    /\ queried = <<>>
    /\ outcome = <<>>
    /\ FsIdle

Parse ==
    /\ pc = "start"
    /\ pc' = "parse"
    /\ LET r == parse(BuildUrl(answers)) IN
          /\ outcome' = r
          /\ urlSpec' = [slug |-> r.slug, tail |-> r.tail]
          /\ queried' = IF r.ok THEN candidates(r) ELSE <<>>
    /\ UNCHANGED answers
    /\ UNCHANGED fsVars

NextParse == Parse

SpecParse == InitParse /\ [][NextParse]_vars

----------------------------------------------------------------------------
(* SpecUpd: the up-to-date decisions of the single and of the batch        *)
(* install, for every manifest, skills root and remote identifier made of  *)
(* the values below.  manifest and disk hold the inputs, answers the name  *)
(* and the remote identifier.                                              *)

UpdTrees ==
    {{<<"SKILL.md", "file", "# s">>},
     {<<"SKILL.md", "file", "# s">>, <<"a.txt", "file", "edited">>},
     {<<"SKILL.md", "file", "# s">>, <<"a.txt", "noread", "edited">>}}

UpdShas == {"s@1", "s@2"}

UpdRecords ==
    {[source_url |-> UrlOf("foo"), slug |-> "o/r", path |-> "skills/foo",
      commit |-> "commit-1", sha |-> s, checksum |-> calculate_checksum(t).val] :
        s \in UpdShas, t \in {t \in UpdTrees : calculate_checksum(t).ok}}

\* the functions from a subset of Names to V
PartialOn(V) == UNION {[D -> V] : D \in SUBSET Names}

InitUpd ==
    /\ pc = "start"
    /\ manifest \in PartialOn(UpdRecords)
    /\ disk \in PartialOn(UpdTrees)
    /\ answers \in [name : Names, sha : UpdShas]
    /\ urlSpec = [slug |-> "", tail |-> <<>>]
    /\ queried = <<>>
    /\ outcome = <<>>
    /\ upstream = <<>>
    /\ cur = Cur0
    /\ hist = Hist0

Decide ==
    /\ pc = "start"
    /\ pc' = "decided"
    /\ outcome' = [single_skips |-> up_to_date(manifest, answers.name, answers.sha),
                   batch_selects |-> skill_needs_update(manifest, answers.name, answers.sha)]
    /\ UNCHANGED <<urlSpec, answers, queried>>
    /\ UNCHANGED fsVars

NextUpd == Decide

SpecUpd == InitUpd /\ [][NextUpd]_vars

----------------------------------------------------------------------------
(* Claims about the reference resolver                                     *)

NotFoundAnswers(loop) == IF loop = "install_skill" THEN {"404"} ELSE {"404", "422"}

HardFailure(a) == a \in {"403", "429", "500", "transport", "200-nosha"}

OnlyLongestRefValid(loop) ==
    LET n == Len(urlSpec.tail) IN
    /\ n >= 2
    /\ \A i \in 1..(n - 2) : answers[i] \in NotFoundAnswers(loop)
    /\ answers[n - 1] = "200"

\* C3: in every candidate loop, the first query that fails with something
\* other than not-found ends the loop with that error: it is the last query
\* made and the loop returns its error.
C3_AbortOnFirstHardError ==
    pc \in {"resolve", "install_skill", "match_upstream_sha"} =>
        \A i \in 1..Len(queried) :
            HardFailure(answers[queried[i]]) =>
                /\ i = Len(queried)
                /\ ~outcome.ok
                /\ outcome.err = resolve_commit_sha(answers[queried[i]]).err

\* the first candidate the remote would confirm is k, and every one before
\* it is answered not-found
FirstConfirmed(loop, k) ==
    /\ k \in DOMAIN answers
    /\ answers[k] = "200"
    /\ \A j \in 1..(k - 1) : answers[j] \in NotFoundAnswers(loop)

\* C18: the loops query the candidates in list order, shortest ref first, and
\* stop at the first one confirmed: it is the one returned, whichever later
\* candidates would have been confirmed too
C18_ShortestConfirmedRefWins ==
    pc \in {"resolve", "install_skill"} =>
        /\ queried = [i \in 1..Len(queried) |-> i]
        /\ \A k \in DOMAIN answers :
              FirstConfirmed(pc, k) =>
                  /\ outcome = Ok(k)
                  /\ queried = [i \in 1..k |-> i]
                  /\ Len(SplitSlash(candidates(urlSpec)[k].ref)) = k
        /\ outcome.ok /\ outcome.idx > 0 => FirstConfirmed(pc, outcome.idx)

C18_Witness ==
    /\ pc = "resolve"
    /\ answers = <<"404", "200", "200">>
    /\ outcome = Ok(2)
    /\ queried = <<1, 2>>
    /\ candidates(urlSpec)[2].ref = "release/v1.0"

\* C4: when every candidate but the last (the longest ref) is answered
\* not-found and the last is confirmed, the loop returns the last candidate
\* and has queried candidates 1..n-1 in that order.
C4_LongestRefResolves ==
    pc \in {"resolve", "install_skill"} /\ OnlyLongestRefValid(pc) =>
        /\ outcome = Ok(Len(urlSpec.tail) - 1)
        /\ queried = [i \in 1..(Len(urlSpec.tail) - 1) |-> i]

C4_Witness ==
    /\ pc = "resolve"
    /\ Len(urlSpec.tail) = 4
    /\ OnlyLongestRefValid(pc)
    /\ outcome = Ok(3)
    /\ candidates(urlSpec)[outcome.idx].ref = "release/v1.0/hotfix"

\* C5: candidates() of a tail of n segments has n-1 entries; entry k splits
\* the tail after k segments: the segments of its ref followed by the
\* segments of its path are the tail, and its ref has exactly k segments.
C5_CandidatesPartitionTail ==
    pc = "done" =>
        LET n == Len(urlSpec.tail) IN
        /\ DOMAIN outcome = 1..(n - 1)
        /\ \A k \in DOMAIN outcome :
              /\ outcome[k].slug = urlSpec.slug
              /\ Len(SplitSlash(outcome[k].ref)) = k
              /\ SplitSlash(outcome[k].ref) \o SplitSlash(outcome[k].path) = urlSpec.tail

C5_Witness ==
    /\ pc = "done"
    /\ urlSpec.tail = <<"release", "v1.0", "skill", "skill">>
    /\ Len(outcome) = 3
    /\ outcome[2] = GitHubUrl("owner/repo", "release/v1.0", "skill/skill")

----------------------------------------------------------------------------
(* Claims about the CLI, checked under Spec *)

Returned == pc = "idle" /\ hist.op \in {"install", "sync", "update", "uninstall"}

\* C1: between invocations, whatever they returned, every skill name has a
\* manifest record iff it has a directory under the skills root
C1_ManifestDiskInvariant ==
    pc = "idle" => \A n \in Names : n \in DOMAIN manifest <=> n \in DOMAIN disk

\* the steps of a single-skill install or of a sync re-download of cur.name
InSwap ==
    \/ cur.op = "install" /\ pc \in {"prepare", "fetch", "extract", "single_remove",
                                      "single_rename", "single_record"}
    \/ cur.op = "sync" /\ cur.name # ""

PreviousContent(n) ==
    IF n \in DOMAIN hist.pre.disk
    THEN n \in DOMAIN disk /\ disk[n] = hist.pre.disk[n]
    ELSE n \notin DOMAIN disk

StagedContent(n) ==
    n \in DOMAIN disk /\ n \in DOMAIN hist.stage /\ disk[n] = hist.stage[n]

\* C2: at every step of a single-skill install or of a sync re-download the
\* destination directory is its complete previous content, the complete
\* staged content, or absent while the staging directory exists
C2_SwapCrashSafe ==
    InSwap =>
        \/ PreviousContent(cur.name)
        \/ StagedContent(cur.name)
        \/ cur.name \notin DOMAIN disk /\ cur.temp \in DOMAIN disk

SingleUrls == InstallUrls \ {UrlAll, UrlMisc}

SameExceptSourceUrl(m1, m2) ==
    /\ DOMAIN m1 = DOMAIN m2
    /\ \A n \in DOMAIN m1 : [m1[n] EXCEPT !.source_url = ""] = [m2[n] EXCEPT !.source_url = ""]

\* the running or returned invocation is an install of a single skill that
\* directly follows a successful install of the same URL into an empty root
Reinstall ==
    /\ hist.op = "install"
    /\ hist.url \in SingleUrls
    /\ hist.prev = [op |-> "install", url |-> hist.url, result |-> "Ok",
                    quiet |-> TRUE, fresh |-> TRUE]

\* C6: re-running install with the same URL right after a successful install
\* into an empty root downloads no archive, leaves the disk as it was, and
\* leaves the manifest unchanged except possibly sourceUrl
C6_ReinstallIsNoOp ==
    Reinstall =>
        /\ hist.downloads = 0
        /\ disk = hist.pre.disk
        /\ SameExceptSourceUrl(manifest, hist.pre.manifest)
        /\ pc \in {"idle", "single_check"}
        /\ pc = "idle" /\ hist.faults = 0 => hist.result = "Ok:uptodate"

C6_Witness ==
    Reinstall /\ pc = "idle" /\ hist.result = "Ok:uptodate" /\ DOMAIN disk = {"foo"}

TargetOf(url) == directory_name(parse(url))

\* C7: an install that finds record and directory in place and the checksum
\* matching, but the resolved identifier different from the recorded one, is
\* not reported up to date: unless it is cancelled at the prompt about a
\* changed source URL it goes on to download, and when it succeeds the record
\* carries the new identifier
C7_MovedRefRedownloads ==
    hist.moved =>
        /\ hist.result # "Ok:uptodate"
        /\ pc = "idle" /\ hist.faults = 0 =>
              LET n == TargetOf(hist.url)
                  conflict == hist.pre.manifest[n].source_url # TrimEndSlash(hist.url)
              IN hist.result = IF conflict /\ ~hist.consent THEN "Ok:cancelled" ELSE "Ok"
        /\ pc = "idle" /\ hist.result = "Ok" =>
              LET n == TargetOf(hist.url) IN
              /\ hist.downloads = 1
              /\ n \in hist.fetched
              /\ manifest[n].sha = TreeSha(n, upstream[n])
              /\ manifest[n].sha # hist.pre.manifest[n].sha
              /\ disk[n] = hist.stage[n]

C7_Witness ==
    hist.moved /\ pc = "idle" /\ hist.result = "Ok"

BatchRan == Returned /\ hist.selected # {} /\ hist.extracted

\* C8: a batch install that got its archive attempts every sub-skill it
\* selected, whatever happened to the others
C8_BatchAttemptsEverySelected ==
    BatchRan => hist.attempted = hist.selected

\* C9: a batch install that ends with a failed sub-skill returns the
\* partial-failure error, whose counts add up to the number selected and whose
\* successes are on disk and in the manifest
C9_BatchPartialFailureReport ==
    BatchRan /\ hist.broken # {} =>
        /\ hist.result = "Err:BatchInstallationFailed"
        /\ hist.successful + Len(hist.failed) = Cardinality(hist.selected)
        /\ {hist.failed[i] : i \in DOMAIN hist.failed} = hist.broken
        /\ \A n \in hist.selected \ hist.broken :
              n \in DOMAIN disk /\ n \in DOMAIN manifest

\* the recomputed checksum of a record's directory differs from the recorded one
Mismatch(m, d, n) ==
    /\ n \in DOMAIN d
    /\ LET cs == calculate_checksum(d[n]) IN cs.ok /\ cs.val # m[n].checksum

\* C10: sync asks before overwriting a directory whose checksum differs from
\* the record; when the answer is not yes the directory stays as it was, the
\* skill is not fetched and its recorded checksum is not changed
C10_SyncDeclineKeepsLocal ==
    hist.op = "sync" =>
        /\ \A n \in hist.declined :
              /\ n \in hist.asked
              /\ n \in DOMAIN disk /\ disk[n] = hist.pre.disk[n]
              /\ n \notin hist.fetched
              /\ n \in DOMAIN manifest
              /\ manifest[n].checksum = hist.pre.manifest[n].checksum
              /\ pc # "idle" => cur.config[n].checksum = hist.pre.manifest[n].checksum
        /\ pc = "idle" /\ hist.result = "Ok" =>
              \A n \in DOMAIN hist.pre.manifest :
                  Mismatch(hist.pre.manifest, hist.pre.disk, n) => n \in hist.asked
        /\ \A n \in hist.asked : Mismatch(hist.pre.manifest, hist.pre.disk, n)

C10_Witness ==
    /\ pc = "idle" /\ hist.op = "sync" /\ hist.result = "Ok"
    /\ hist.declined # {}
    /\ hist.prompts = 1

\* no failure was injected into the running or returned invocation
Clean == hist.faults = hist.faults0

\* C11: a record whose directory sync finds missing is never asked about and
\* is fetched at once; when nothing fails the directory is back, with the
\* fetched content, when sync returns
C11_SyncMissingDirNoPrompt ==
    hist.op = "sync" =>
        \A n \in hist.absent :
            /\ n \notin DOMAIN hist.pre.disk
            /\ n \notin hist.asked
            /\ Clean => n \in hist.fetched \/ (pc = "fetch" /\ cur.name = n)
            /\ Clean /\ pc = "idle" =>
                  /\ hist.result = "Ok"
                  /\ n \in DOMAIN disk
                  /\ disk[n] = hist.stage[n]

C11_Witness ==
    /\ pc = "idle" /\ hist.op = "sync" /\ hist.result = "Ok"
    /\ hist.absent # {}
    /\ hist.prompts = 0
    /\ \A n \in hist.absent : n \in DOMAIN disk /\ ensure_skill_manifest(disk[n])

\* C12: when sync has returned successfully, every skill directory under the
\* skills root has a record in the manifest (no orphan directory survives)
C12_SyncDeletesOrphans ==
    pc = "idle" /\ hist.op = "sync" /\ hist.result = "Ok" =>
        \A n \in Names \cap DOMAIN disk : n \in DOMAIN manifest

\* what an intact archive of the repository as seen through ref puts into an
\* empty staging directory for path
ContentAt(ref, path) == UnpackAll({}, Extracted[VersionsAt(ref)][NoDefect][path])

DiskChecksum(n) == calculate_checksum(disk[n])

\* C14: when install or sync has put a new directory in place for a skill and
\* returned, the skill's record carries the checksum of that directory as it
\* is on disk
C14_ChecksumOfFinalDirectory ==
    Returned =>
        \A n \in hist.replaced :
            /\ n \in DOMAIN manifest
            /\ DiskChecksum(n).ok
            /\ manifest[n].checksum = DiskChecksum(n).val

\* the record of n is the one the invocation started with
RecordUnchanged(n) ==
    IF n \in DOMAIN hist.pre.manifest
    THEN n \in DOMAIN manifest /\ manifest[n] = hist.pre.manifest[n]
    ELSE n \notin DOMAIN manifest

\* C15: a skill whose staged content has no SKILL.md at its top level keeps
\* the directory and the record it had when the operation started
C15_NoMarkerNoMutation ==
    hist.op \in {"install", "sync"} =>
        \A n \in DOMAIN hist.stage :
            ~ensure_skill_manifest(hist.stage[n]) =>
                PreviousContent(n) /\ RecordUnchanged(n)

\* the source URL that the running or returned install records for n, "" when
\* it does not install n: the URL itself for a single skill, the container's
\* URL and the name for a sub-skill
InstalledAs(n) ==
    LET url == TrimEndSlash(hist.url) IN
    IF url = UrlAll THEN url \o "/" \o n
    ELSE IF TargetOf(url) = n THEN url
    ELSE ""

\* n is recorded under another source URL than the one being installed
SourceConflict(n) ==
    /\ n \in DOMAIN hist.pre.manifest
    /\ InstalledAs(n) # ""
    /\ hist.pre.manifest[n].source_url # InstalledAs(n)

\* C16: an install that was given neither the auto-confirm option nor a yes
\* typed at a terminal leaves alone the directory and the record of every
\* skill that is recorded under another source URL
C16_ConflictNeedsConfirmation ==
    hist.op = "install" /\ ~hist.consent =>
        \A n \in Names :
            SourceConflict(n) => PreviousContent(n) /\ RecordUnchanged(n)

C16_Witness ==
    /\ pc = "idle" /\ hist.op = "install" /\ ~hist.consent
    /\ hist.result = "Ok:cancelled"
    /\ SourceConflict("foo")
    /\ hist.pre.manifest["foo"].sha # TreeSha("foo", upstream["foo"])

\* the repository answers not-found for every candidate of the URL of the
\* running or returned invocation
NoCandidateExists ==
    LET sp == parse(hist.url) IN
    sp.ok /\ \A i \in DOMAIN candidates(sp) : RemoteStatus(candidates(sp)[i]) = "404"

C19_UninstallRemovesBoth ==
    hist.op = "uninstall" /\ pc = "idle" /\ Clean =>
        LET name == hist.url
            dir == name \in DOMAIN hist.pre.disk
            rec == name \in DOMAIN hist.pre.manifest
        IN /\ disk = Drop(hist.pre.disk, name)
           /\ manifest = Drop(hist.pre.manifest, name)
           /\ name \notin DOMAIN disk
           /\ name \notin DOMAIN manifest
           /\ hist.result = IF dir \/ rec THEN "Ok:uninstalled" ELSE "Ok:notinstalled"
           /\ hist.saves = IF rec THEN 1 ELSE 0
           /\ hist.prev.op = "uninstall" /\ hist.prev.url = name
              /\ hist.prev.result \in {"Ok:uninstalled", "Ok:notinstalled"}
              => /\ disk = hist.pre.disk
                 /\ manifest = hist.pre.manifest
                 /\ hist.result = "Ok:notinstalled"
                 /\ hist.saves = 0

C19_Witness ==
    /\ hist.op = "uninstall" /\ pc = "idle" /\ Clean
    /\ hist.url = "foo"
    /\ hist.prev.op = "uninstall" /\ hist.prev.url = "foo"
    /\ hist.prev.result = "Ok:uninstalled"
    /\ hist.result = "Ok:notinstalled"
    /\ "bar" \in DOMAIN disk

\* the first step of install_skill called with url, as part of an update of name
InstallCalledWith(name, url) ==
    \E yes \in BOOLEAN, cond \in {"intact"} :
        InstallBody([Loading(HBegin("install", url), cond)
                         EXCEPT !.update = name],
                    url, yes)

\* C20: update of a recorded name is install_skill called with the URL the
\* record stores, resolved again from that URL; update of a name without a
\* record in a manifest that loads succeeds, leaves the manifest and the disk as they were and asks
\* the remote nothing
C20_UpdateIsInstallOfStoredUrl ==
    /\ [](hist.op = "update" /\ pc = "idle" /\ hist.toml \in {"intact", "missing"} =>
            /\ hist.url \notin DOMAIN hist.pre.manifest
            /\ hist.result = "Ok:notinstalled"
            /\ manifest = hist.pre.manifest
            /\ disk = hist.pre.disk
            /\ hist.queries = 0 /\ hist.downloads = 0 /\ hist.saves = 0)
    /\ [](hist.update # "" =>
            /\ hist.op = "install"
            /\ hist.update \in DOMAIN hist.pre.manifest
            /\ hist.url = hist.pre.manifest[hist.update].source_url
            /\ hist.result # "running" => hist.queries >= 1)
    /\ [][pc = "idle" /\ hist'.update # "" =>
            /\ hist'.update \in DOMAIN manifest
            /\ InstallCalledWith(hist'.update, manifest[hist'.update].source_url)]_vars

C20_Witness ==
    /\ pc = "idle"
    /\ hist.update = "foo"
    /\ hist.result = "Ok"
    /\ hist.pre.manifest["foo"].source_url = UrlAlt
    /\ "foo" \in DOMAIN hist.pre.disk
    /\ "foo" \in DOMAIN disk /\ "foo" \in DOMAIN manifest
    /\ disk["foo"] # hist.pre.disk["foo"]
    /\ manifest["foo"].sha # hist.pre.manifest["foo"].sha

\* a is b up to the case of its ASCII letters
SameIgnoringCase(a, b) ==
    /\ Len(a) = Len(b)
    /\ \A i \in 1..Len(a) :
          LET x == SubSeq(a, i, i)
              y == SubSeq(b, i, i)
          IN \/ x = y
             \/ x \in DOMAIN LowerOf /\ LowerOf[x] = y
             \/ y \in DOMAIN LowerOf /\ LowerOf[y] = x

\* the listing has a file named SKILL.md, in whatever case
HasMarker(items) ==
    \E i \in DOMAIN items :
        items[i].type = "file" /\ SameIgnoringCase(items[i].name, "SKILL.md")

Detected == pc \in {"install_skill", "detect_skill_type"}

\* C21: a location is taken for a single skill exactly when its listing has
\* a file named SKILL.md in any case, and then no sub-directory is listed
C21_SingleIffMarkerFile ==
    Detected =>
        /\ (outcome.kind = "Single") = HasMarker(answers.entries)
        /\ outcome.kind = "Single" => queried = <<>> /\ outcome.dirs = <<>>

C21_Witness ==
    /\ pc = "install_skill"
    /\ outcome.kind = "Single"
    /\ answers.entries = <<Item("foo", "dir", ""), Item("skill.md", "file", "")>>

\* the path a URL of this repository resolves to: the branch is one segment
ResolvedPath(url) == Join(Tail(parse(TrimEndSlash(url)).tail))

\* the immediate sub-directories of a directory of the repository whose own
\* listing has a SKILL.md file
MarkedSubdirs(path) ==
    LET es == Contents[upstream][path].entries IN
    {es[i].name : i \in {j \in DOMAIN es :
                            /\ es[j].type = "dir"
                            /\ HasMarker(Contents[upstream][path \o "/" \o es[j].name].entries)}}

\* the invocation is an install of a location that holds no SKILL.md itself
BatchInstall ==
    /\ hist.op = "install"
    /\ parse(TrimEndSlash(hist.url)).ok
    /\ ResolvedPath(hist.url) \in RemotePaths
    /\ ~HasMarker(Contents[upstream][ResolvedPath(hist.url)].entries)

\* C22: a batch install selects, installs and records only sub-directories
\* that hold a SKILL.md, and into an empty root it selects every one of them
C22_BatchMembersHoldMarker ==
    BatchInstall /\ pc # "batch_check" /\ hist.queries > 0 =>
        LET members == MarkedSubdirs(ResolvedPath(hist.url)) IN
        /\ hist.selected \subseteq members
        /\ hist.replaced \subseteq members
        /\ (DOMAIN manifest) \ (DOMAIN hist.pre.manifest) \subseteq members
        /\ hist.consent /\ hist.pre = NoSnap => hist.selected = members

\* C23: an install of a location that holds no SKILL.md and has no
\* sub-directory holding one changes neither the manifest nor the skills
\* root, and unless a request or a filesystem call fails it ends with the
\* no-skills-found error
C23_NoSkillsFoundChangesNothing ==
    BatchInstall /\ hist.queries > 0 /\ MarkedSubdirs(ResolvedPath(hist.url)) = {} =>
        /\ manifest = hist.pre.manifest
        /\ disk = hist.pre.disk
        /\ pc = "idle" /\ Clean => hist.result = "Err:NoSkillsFound"

\* an entry of the archive lies below path once the wrapper directory w is
\* taken off its name
HasEntryUnder(arch, path) ==
    \E i \in DOMAIN arch :
        /\ StartsWith(arch[i].name, "w/")
        /\ LET rest == StripPrefix(arch[i].name, "w/") IN
           StartsWith(rest, path \o "/") /\ rest # path \o "/"

\* the archive was sent and every entry of it can be read
Readable ==
    /\ answers.status = "200"
    /\ \A i \in DOMAIN answers.arch : answers.arch[i].kind # "corrupt"

\* C24: given a readable archive, download_and_extract returns PathNotFound
\* exactly when no entry lies below the path, and has then written nothing;
\* a failed request, an unreadable archive and a failed write give other
\* errors
C24_PathNotFoundIffNoEntry ==
    pc = "download_and_extract" =>
        /\ Readable =>
              ((outcome.err = "PathNotFound") <=> ~HasEntryUnder(answers.arch, ArchPath))
        /\ outcome.err = "PathNotFound" => Readable /\ outcome.tree = {}
        /\ ~Readable => outcome.err \in {"NotFound", "Forbidden", "RateLimited", "HttpError",
                                         "NetworkError", "InvalidArchive", "IoError"}
        /\ outcome.err = "" => Readable /\ outcome.tree # {}

C24_Witness ==
    /\ pc = "download_and_extract"
    /\ outcome.err = "PathNotFound"
    /\ answers.arch = <<ArchEntry("w/", "dir", ""), ArchEntry("w/skills/foo/", "dir", ""),
                        ArchEntry("w/skills/foobar/x", "file", "x")>>

\* the (relative path, content) pairs of the regular files of a tree
FilePairs(tree) == {<<e[1], e[3]>> : e \in {x \in tree : IsFile(x)}}

AllReadable(tree) == \A e \in tree : e[2] \in {"file", "dir"}

\* C25: the digests of two directories that can be read are equal exactly
\* when their sets of (relative path, content) pairs are equal
C25_ChecksumOfFileSet ==
    pc = "calculate_checksum" /\ AllReadable(answers[1]) /\ AllReadable(answers[2]) =>
        /\ outcome[1].ok /\ outcome[2].ok
        /\ (outcome[1].val = outcome[2].val) <=> (FilePairs(answers[1]) = FilePairs(answers[2]))

\* C26: a directory with a file or a sub-directory that cannot be read has
\* no digest: calculate_checksum returns the I/O error
C26_UnreadableEntryIsError ==
    pc = "calculate_checksum" =>
        \A i \in 1..2 : ~AllReadable(answers[i]) => ~outcome[i].ok

\* C27: an install or a sync in which a filesystem call failed, other than
\* the clean-up of the staging directory after an earlier failure, returns
\* an error
C27_FilesystemErrorsAbort ==
    Returned /\ hist.op \in {"install", "sync"} /\ hist.fserr =>
        hist.result \notin {"Ok", "Ok:uptodate", "Ok:cancelled"}

\* C28: an invocation that has returned read the manifest file exactly once
\* and wrote it at most once
C28_OneLoadAtMostOneSave ==
    Returned => hist.loads = 1 /\ hist.saves <= 1

\* the directory of n exists and its checksum equals the recorded one
UpToDate(m, d, n) ==
    /\ n \in DOMAIN m
    /\ n \in DOMAIN d
    /\ LET cs == calculate_checksum(d[n]) IN cs.ok /\ cs.val = m[n].checksum

\* C29: in sync, a record whose directory exists with the recorded checksum
\* is not asked about, no download is made for it, its directory stays as it
\* was and its record is the same in the manifest sync works on and saves
C29_SyncSkipsUpToDate ==
    hist.op = "sync" =>
        \A n \in DOMAIN hist.pre.manifest :
            UpToDate(hist.pre.manifest, hist.pre.disk, n) =>
                /\ n \notin hist.asked
                /\ n \notin hist.fetched
                /\ ~(pc \in {"fetch", "sync_validate", "sync_remove", "sync_rename"}
                      /\ cur.name = n)
                /\ n \notin hist.replaced
                /\ n \in DOMAIN disk /\ disk[n] = hist.pre.disk[n]
                /\ pc # "idle" => cur.config[n] = hist.pre.manifest[n]
                /\ n \in DOMAIN manifest /\ manifest[n] = hist.pre.manifest[n]

C29_Witness ==
    /\ pc = "idle" /\ hist.op = "sync" /\ hist.result = "Ok" /\ hist.saves = 1
    /\ UpToDate(hist.pre.manifest, hist.pre.disk, "foo")
    /\ "bar" \in hist.fetched /\ "bar" \in hist.replaced

\* the URL put together from p is https://github.com/<owner>/<repo>/tree/<tail>
TreeUrl(p) ==
    /\ p.prefix = "https://github.com/"
    /\ p.owner # "" /\ p.repo # ""
    /\ p.word = "tree"

\* C30: parse fails with InvalidUrl when the URL is not
\* https://github.com/<owner>/<repo>/tree/<tail> or its tail has fewer than
\* two non-empty segments; otherwise it succeeds with slug owner/repo and
\* the non-empty segments of the tail, which give at least one candidate
C30_ParseAcceptsTreeUrls ==
    pc = "parse" =>
        LET segs == SelectSeq(answers.segs, LAMBDA s : s # "") IN
        IF TreeUrl(answers) /\ Len(segs) >= 2
        THEN /\ outcome.ok
             /\ outcome.slug = answers.owner \o "/" \o answers.repo
             /\ outcome.tail = segs
             /\ Len(queried) >= 1
             /\ \A i \in DOMAIN queried : queried[i].ref # "" /\ queried[i].path # ""
        ELSE ~outcome.ok /\ queried = <<>>

C30_Witness ==
    /\ pc = "parse"
    /\ answers.segs = <<"main", "", "foo">>
    /\ answers.trail = "//"
    /\ outcome.ok
    /\ outcome.tail = <<"main", "foo">>
    /\ Len(queried) = 1

\* skills.toml as the running or returned invocation found it when it
\* loaded the manifest
LoadedFile == TomlFile(hist.pre.manifest, hist.toml)

\* C31: a missing or empty manifest file loads as the empty mapping; a
\* malformed one gives ConfigParseError and not a mapping; an invocation whose
\* load failed has returned that error and the manifest and the skills root
\* are as they were when it began
C31_LoadOfManifest ==
    hist.toml # "none" =>
        LET file == LoadedFile
            ld == from_file(file)
        IN /\ ~file.exists \/ (file.readable /\ file.doc = <<>>) =>
                 ld.ok /\ ld.skills = <<>>
           /\ hist.toml \in {"malformed", "incomplete"} =>
                 ~ld.ok /\ ld.err = "ConfigParseError"
           /\ hist.toml \in {"malformed", "incomplete", "unreadable"} =>
                 /\ pc = "idle"
                 /\ hist.result = "Err:" \o ld.err
                 /\ hist.saves = 0
                 /\ manifest = hist.pre.manifest
                 /\ disk = hist.pre.disk

C31_Witness ==
    /\ pc = "idle"
    /\ hist.op = "uninstall" /\ hist.url = "foo"
    /\ hist.toml = "malformed"
    /\ hist.result = "Err:ConfigParseError"
    /\ "foo" \in DOMAIN manifest /\ "foo" \in DOMAIN disk

\* a single-skill install has returned successfully after a download
SingleInstalled ==
    /\ pc = "idle" /\ hist.op = "install" /\ hist.result = "Ok"
    /\ hist.selected = {} /\ hist.downloads = 1

\* C32: after a successful single-skill install the manifest has a record
\* under the last segment of the URL's tail, whose path is the resolved path
\* and whose stored reference is the resolved ref string of the URL
C32_RecordHoldsRefAndPath ==
    SingleInstalled =>
        LET sp == parse(hist.url)
            name == directory_name(sp)
        IN /\ name \in DOMAIN manifest
           /\ \E i \in DOMAIN candidates(sp) :
                 /\ manifest[name].path = candidates(sp)[i].path
                 /\ manifest[name].sha = candidates(sp)[i].ref

\* C33: a sync that has loaded a non-empty manifest leaves the manifest file
\* as loaded until it has gone through every record, even when directories
\* have been replaced; it returns only from there, having written the file
\* once
C33_SyncSavesOnceAtEnd ==
    /\ [](hist.op = "sync" /\ pc # "idle" =>
            /\ hist.saves = 0
            /\ manifest = hist.pre.manifest)
    /\ [][hist.op = "sync" /\ pc # "idle" /\ pc' = "idle" =>
            /\ pc = "sync_item" /\ cur.todo = <<>>
            /\ hist'.saves = 1]_vars
    /\ [](hist.op = "sync" /\ pc = "idle" => hist.saves <= 1)

C33_Witness ==
    /\ hist.op = "sync" /\ pc = "sync_item" /\ cur.todo # <<>>
    /\ hist.replaced # {}
    /\ manifest = hist.pre.manifest
    /\ \E n \in hist.replaced : cur.config[n].checksum # manifest[n].checksum

\* C34: when an extraction starts, the staging directory it writes into
\* exists and is empty
C34_StagingEmptyAtExtraction ==
    pc = "fetch" => cur.temp \in DOMAIN disk /\ disk[cur.temp] = {}

\* C35: an install whose archive fetch for a confirmed candidate failed with
\* PathNotFound or NotFound has gone on to the candidates after it: it
\* returns that error only when every candidate of the URL has been tried
C35_FetchNotFoundTriesNext ==
    /\ pc = "idle" /\ hist.op = "install" /\ hist.downloads >= 1
    /\ hist.result \in {"Err:PathNotFound", "Err:NotFound"}
    => hist.queries = Len(candidates(parse(hist.url)))

\* a single-skill install has returned after its download or extraction failed
SingleDownloadFailed ==
    /\ pc = "idle" /\ hist.op = "install" /\ hist.selected = {}
    /\ hist.downloads = 1 /\ ~hist.extracted

C37_SyncLoopGoesOn ==
    /\ [](hist.op = "sync" /\ pc = "idle" /\ hist.seen # <<>> =>
            /\ hist.seen = SortNames(DOMAIN hist.pre.manifest)
            /\ hist.saves = 1)
    /\ [](hist.op = "sync" /\ pc # "idle" =>
            hist.seen \o (IF pc = "sync_item" THEN cur.todo ELSE Tail(cur.todo))
                = SortNames(DOMAIN hist.pre.manifest))
    /\ [][hist.op = "sync" /\ pc = "sync_item" /\ pc' = "idle" =>
            hist'.result = "Ok" \/ hist'.faults > hist.faults]_vars

C37_Witness ==
    /\ hist.op = "sync" /\ pc = "idle" /\ hist.result = "Ok"
    /\ hist.seen = <<"bar", "foo">>
    /\ "bar" \in hist.fetched /\ "bar" \notin hist.replaced
    /\ hist.saves = 1

\* m and the manifest loaded by the invocation have the same keys, and each
\* record differs from the loaded one in its checksum at most
SameButChecksums(m) ==
    /\ DOMAIN m = DOMAIN hist.pre.manifest
    /\ \A n \in DOMAIN m :
          [m[n] EXCEPT !.checksum = hist.pre.manifest[n].checksum] = hist.pre.manifest[n]

\* C38: sync adds no record, removes none, and changes no field of a record
\* but its checksum, in the manifest it works on and in the one it saves
C38_SyncChangesChecksumsOnly ==
    hist.op = "sync" =>
        /\ SameButChecksums(manifest)
        /\ pc # "idle" => SameButChecksums(cur.config)

C38_Witness ==
    /\ hist.op = "sync" /\ pc = "idle" /\ hist.result = "Ok"
    /\ \E n \in DOMAIN manifest :
          manifest[n].checksum # hist.pre.manifest[n].checksum

\* C39: a skill directory that existed when sync began is replaced by sync
\* only after the user was asked about that skill and answered yes
C39_SyncOverwritesOnConfirmation ==
    hist.op = "sync" =>
        \A n \in DOMAIN hist.pre.disk :
            n \in hist.replaced \/ (pc \in {"sync_remove", "sync_rename"} /\ cur.name = n
                                      /\ (n \notin DOMAIN disk \/ disk[n] # hist.pre.disk[n]))
                => n \in hist.asked /\ n \notin hist.declined

\* C40: for every record, directory and remote identifier, the single
\* install finds the skill up to date exactly when skill_needs_update is
\* false, which is when the record and the directory exist, the remote
\* identifier is the recorded one and the checksum can be computed and is
\* the recorded one
C40_SameUpToDateDecision ==
    pc = "decided" =>
        LET n == answers.name
            present == n \in DOMAIN manifest
            dir == n \in DOMAIN disk
            files == IF dir THEN {e \in disk[n] : e[2] # "dir"} ELSE {}
            computable == dir /\ \A e \in files : e[2] = "file"
            equal == /\ present /\ computable
                     /\ \E t \in UpdTrees :
                           /\ {e \in t : e[2] # "dir"} = files
                           /\ manifest[n].checksum = calculate_checksum(t).val
        IN /\ outcome.single_skips = ~outcome.batch_selects
           /\ outcome.single_skips =
                 (present /\ dir /\ answers.sha = manifest[n].sha /\ computable /\ equal)

C40_Witness ==
    /\ pc = "decided"
    /\ answers.name = "foo"
    /\ "foo" \in DOMAIN manifest /\ "foo" \in DOMAIN disk
    /\ answers.sha = manifest["foo"].sha
    /\ \E e \in disk["foo"] : e[2] = "noread"
    /\ ~outcome.single_skips /\ outcome.batch_selects

====
